---------------------------- MODULE Spec2Model ----------------------------
(***************************************************************************)
(* A model of pgreplicaproxy: the server status oracle                     *)
(* (serverStatusOracle, addToRing, removeFromRing), the probes             *)
(* (monitorBackend), the backend key registry (keydatastore.go) and the    *)
(* per-connection handler of receiver.go.                                  *)
(*                                                                         *)
(* Each component has its own specification over the shared variables:     *)
(*   SpecOracle    the oracle's select loop;                               *)
(*   SpecRegistry  the registry task and goroutines calling its functions; *)
(*   SpecSession   one client session from net.Dial on: backend, client,   *)
(*                 the handler's two goroutines and the registry task;     *)
(*   SpecStartup   one connection up to net.Dial: the startup packet, the  *)
(*                 request to the oracle and the replay, with the oracle   *)
(*                 applying status updates;                                *)
(*   SpecCancel    one connection that sends a CancelRequest, with         *)
(*                 sessions registering and deregistering keys;            *)
(*   SpecMonitor   the probes and the oracle applying what they send;      *)
(*   SpecInsertion the oracle while backends come up as replicas and then  *)
(*                 serve readers;                                          *)
(*   SpecTunnels   several sessions registering their keys, tunnelling and  *)
(*                 deregistering, with lookups of CancelRequests;          *)
(*   SpecReaders   the oracle serving readers without end while probes     *)
(*                 report changes, and LiveReaders, the same when replica  *)
(*                 requests keep coming;                                   *)
(*   SpecRequests  handlers asking the oracle for a backend while the      *)
(*                 probes report, one channel operation at a time, and     *)
(*                 LiveRequests, the same under the scheduler's fairness.  *)
(***************************************************************************)
EXTENDS Integers, Sequences, FiniteSets, TLC

(***************************************************************************)
(* Bounds of the model.                                                    *)
(***************************************************************************)
\* number of configured backends
NumBackends == 3
\* reader requests recorded between two status updates
MaxReads == 7
\* goroutines inside getBackendForBackendKeyData at the same time
NumCallers == 2
\* backend keys the callers of the registry use
NumKeys == 2
\* backends the callers of the registry register
NumCallerBackends == 2

(***************************************************************************)
(* Program constants.                                                      *)
(***************************************************************************)
StatusUnknown == 0
StatusDown == 1
StatusBroken == 2
StatusMaster == 3
StatusReplica == 4

\* the nil *string
Nil == 0
Backends == 1..NumBackends
\* the statuses monitorBackend sends on serverStatusUpdateChannel
SentStatuses == {StatusDown, StatusBroken, StatusMaster, StatusReplica}

VARIABLES
  \* ---- serverStatusOracle
  masterServer,     \* var masterServer *string (Nil or a backend)
  replicaServers,   \* the ring, as the sequence of its values read forward
                    \* from the element replicaServers points at
  \* ---- history of the oracle (not program state)
  lastApplied,      \* per backend, the status of the last update applied
  lastEvent,        \* the last update applied
  masterBefore,     \* masterServer when the last update was received
  ringBefore,       \* replicaServers when the last update was received
  reply,            \* the last reply sent since the last update
  readerLog,        \* the replies to replica requests since the last update
  insertionOrder,   \* the backends whose last applied status is Replica, in
                    \* the order in which those updates were applied
  \* ---- manageBackendKeyDataStorage
  store,            \* the map store: a function whose domain is its keys
  regPc,            \* where the registry task is: "select" or inside a case
  regMsg,           \* the message the registry task has received
  \* ---- goroutines inside getBackendForBackendKeyData
  callPc,           \* "idle", "send" (blocked sending) or "recv" (on returnChan)
  callKey,          \* the key looked up
  \* ---- history of the registry (not program state)
  written,          \* per key, the backend of the last register applied to
                    \* store, Nil after a deregister or when there was none
  mustSee,          \* per goroutine in a lookup: the backend of the register
                    \* of its key that returned last before the lookup began,
                    \* Nil once another write of that key has been received
  lastGet,          \* the lookup that has just returned
  \* ---- handleIncomingConnection, from net.Dial on, for one connection
  hpc,              \* where the handler goroutine is
  selected,         \* *backend, the oracle's reply
  sniff,            \* the locals of proxyPacketsUntilBackendKeyDataReceived
  copyPc,           \* the goroutine of io.Copy(conn, upstream): "off",
                    \* "read", "write" or "done"
  copyBuf,          \* the bytes that goroutine has read and not yet written
  connOpen,         \* conn (the client's socket) has not been closed
  upstreamOpen,     \* upstream (the backend's socket) is open in the proxy
  errText,          \* the text the handler is sending with sendError
  \* ---- the sockets
  toProxy,          \* bytes the backend has sent that upstream.Read has not
                    \* returned yet
  toBackend,        \* bytes written to upstream that the backend has not read
  toClient,         \* bytes written to conn, in the order written
  fromClient,       \* bytes the client has sent that conn.Read has not returned
  \* ---- the backend and the client
  authMode,         \* what the backend asks of the client: "trust", "password"
  bpos,             \* how many steps of its script the backend has done
  clientPc,         \* "wait", "answered" (password sent), "done"
                    \* (Terminate sent), "closed"
  \* ---- history of the session (not program state)
  \* ---- handleIncomingConnection up to net.Dial: readStartupMessageInternal
  allowRecursion,   \* its parameter: FALSE after an SSLRequest was answered
  startupMessageSize,     \* the length field of the packet last read
  protocolVersionNumber,  \* the protocol version of the packet last read
  cancelKey,        \* key: the (processId, secretKey) of a CancelRequest
  startupParameters,      \* the parameters: a function from keys to values
  wantReplica,
  \* ---- history of the handler's start-up (not program state)
  calls,            \* the requests to the oracle, lookups in the registry and
                    \* dials the handler has made, in order
  lastPacket,       \* the packet the client sent last
  \* ---- monitorBackend, one goroutine per probed backend
  probe,            \* per probed backend, the locals of its goroutine
  relayed,          \* the bytes read from upstream and written to conn, in
                    \* the order written
  sessKey,          \* the keys the handler has passed to registerBackendKey
  \* ---- the request of a handler to the oracle, step by step
  oraclePc,         \* "select": the oracle is at its select; "reply": it is
                    \* sending on the responseChannel of the request it took
  responseChannel,  \* the handler whose request the oracle took, or Nil
  handlers,         \* per handler, its position around lines 191-199 of
                    \* receiver.go, its wantReplica, the backend it received
                    \* and the number of replies to its request
  \* ---- handlers around their tunnel (receiver.go lines 255-268)
  tunnels           \* per session, where its handler is ("start": before
                    \* registerBackendKey, "tunnel", "returned"), its key and
                    \* backend, and whether another session held the same
                    \* key while it was in its tunnel (history)

oracleVars == <<masterServer, replicaServers, lastApplied, lastEvent,
                masterBefore, ringBefore, reply, readerLog, insertionOrder>>

registryVars == <<store, regPc, regMsg, written>>

callerVars == <<callPc, callKey, mustSee, lastGet>>

handlerVars == <<hpc, selected, sniff, copyPc, copyBuf, connOpen,
                 upstreamOpen, errText>>

socketVars == <<toProxy, toBackend, toClient, fromClient>>

peerVars == <<authMode, bpos, clientPc>>

startupVars == <<allowRecursion, startupMessageSize, protocolVersionNumber,
                 cancelKey, startupParameters, wantReplica, calls, lastPacket>>

sessionVars == <<handlerVars, socketVars, peerVars, relayed, sessKey,
                 startupVars>>

monitorVars == <<probe>>

requestVars == <<oraclePc, responseChannel, handlers>>

tunnelVars == <<tunnels>>

vars == <<oracleVars, registryVars, callerVars, sessionVars, monitorVars,
          requestVars, tunnelVars>>

(***************************************************************************)
(* container/ring, as used by the oracle.  A ring is modelled by the       *)
(* sequence of its values starting at the element the *Ring points at and  *)
(* following next; the nil ring (ring.New(0)) is the empty sequence.       *)
(***************************************************************************)
\* r.Len()
RingLen(r) == Len(r)

\* r.Next(): the pointer moves one element forward
RingNextStuck(r) == r
RingNext(r) == IF r = <<>> THEN r ELSE Tail(r) \o <<Head(r)>>

\* addToRing: n.Link(r) puts the new element n just before r and returns n
addToRing(r, s) == <<s>> \o r

\* r.Do(f) of removeFromRing: visits r forward, adding every value but s
RECURSIVE RingDo(_, _, _)
RingDo(r, s, newRing) ==
  IF r = <<>> THEN newRing
  ELSE RingDo(Tail(r), s,
              IF Head(r) # s THEN addToRing(newRing, Head(r)) ELSE newRing)

removeFromRingKeep(r, s) == r
removeFromRing(r, s) == RingDo(r, s, <<>>)

(***************************************************************************)
(* serverStatusOracle: the three cases of its select.                      *)
(***************************************************************************)
\* masterServer after the statusUpdate case
UpdateMasterKeepOnReplica(master, status, backend) ==
  IF status = StatusMaster THEN backend
  ELSE IF status # StatusReplica /\ master # Nil /\ master = backend THEN Nil
  ELSE master
UpdateMasterNoClear(master, status, backend) ==
  IF status = StatusMaster THEN backend ELSE master
UpdateMaster(master, status, backend) ==
  IF status = StatusMaster THEN backend
  ELSE IF master # Nil /\ master = backend THEN Nil
  ELSE master

\* replicaServers after the statusUpdate case
UpdateReplicasNoRemove(ring, status, backend) ==
  IF status = StatusReplica THEN addToRing(ring, backend) ELSE ring
UpdateReplicas(ring, status, backend) ==
  IF status = StatusMaster THEN removeFromRing(ring, backend)
  ELSE IF status = StatusReplica
    THEN addToRing(removeFromRing(ring, backend), backend)
  ELSE removeFromRing(ring, backend)

NoReply == [kind |-> "none", backend |-> Nil]

\* the oracle before its first select when the configured backends are B
OracleInitFor(B) ==
  /\ masterServer = Nil
  /\ replicaServers = <<>>
  /\ lastApplied = [b \in B |-> StatusUnknown]
  /\ insertionOrder = <<>>
  /\ lastEvent = [status |-> StatusUnknown, backend |-> Nil]
  /\ masterBefore = Nil
  /\ ringBefore = <<>>
  /\ reply = NoReply
  /\ readerLog = <<>>

OracleInit == OracleInitFor(Backends)

\* case statusUpdate := <-serverStatusUpdateChannel
StatusUpdate(status, backend) ==
  /\ oraclePc = "select"
  /\ masterServer' = UpdateMaster(masterServer, status, backend)
  /\ replicaServers' = UpdateReplicas(replicaServers, status, backend)
  /\ lastApplied' = [lastApplied EXCEPT ![backend] = status]
  /\ lastEvent' = [status |-> status, backend |-> backend]
  /\ masterBefore' = masterServer
  /\ ringBefore' = replicaServers
  /\ reply' = NoReply
  /\ readerLog' = <<>>
  /\ insertionOrder' =
       LET others == SelectSeq(insertionOrder, LAMBDA b : b # backend)
       IN IF status = StatusReplica THEN Append(others, backend) ELSE others
  /\ UNCHANGED <<registryVars, callerVars, sessionVars, requestVars, tunnelVars>>

\* case masterRequest := <-masterRequestChannel: the reply
MasterReply ==
  /\ reply' = [kind |-> "writer", backend |-> masterServer]
  /\ UNCHANGED <<masterServer, replicaServers, lastApplied, lastEvent,
                 masterBefore, ringBefore, readerLog, insertionOrder>>

MasterRequest ==
  MasterReply /\ UNCHANGED <<registryVars, callerVars, sessionVars, monitorVars, requestVars, tunnelVars>>

\* lines 43-49: the ring is advanced and the reply chosen
ReplicaChoice ==
  /\ IF RingLen(replicaServers) = 0
       THEN /\ replicaServers' = replicaServers
            /\ reply' = [kind |-> "reader", backend |-> Nil]
       ELSE /\ replicaServers' = RingNext(replicaServers)
            /\ reply' = [kind |-> "reader", backend |-> Head(replicaServers')]
  /\ UNCHANGED <<masterServer, lastApplied, lastEvent, masterBefore, ringBefore,
                 insertionOrder>>

\* case replicaRequest := <-replicaRequestChannel: the reply
ReplicaReply ==
  /\ Len(readerLog) < MaxReads
  /\ ReplicaChoice
  /\ readerLog' = Append(readerLog, reply'.backend)

ReplicaRequest ==
  ReplicaReply /\ UNCHANGED <<registryVars, callerVars, sessionVars, monitorVars, requestVars, tunnelVars>>

OracleStatusUpdate ==
  /\ \E status \in SentStatuses, backend \in Backends :
       StatusUpdate(status, backend)
  /\ UNCHANGED <<monitorVars, requestVars, tunnelVars>>

NextOracle ==
  \/ OracleStatusUpdate
  \/ MasterRequest
  \/ ReplicaRequest

(***************************************************************************)
(* The oracle when backends come up as replicas one after the other and    *)
(* readers are served only afterwards.                                     *)
(***************************************************************************)
\* number of backends that come up as replicas
NumReplicas == 4
Replicas == 1..NumReplicas

\* a backend not reported yet is reported as a replica, before any request
ReplicaComesUp ==
  /\ reply = NoReply
  /\ \E backend \in Replicas :
       /\ lastApplied[backend] = StatusUnknown
       /\ StatusUpdate(StatusReplica, backend)
  /\ UNCHANGED monitorVars

NextInsertion ==
  \/ ReplicaComesUp
  \/ ReplicaRequest

(***************************************************************************)
(* The oracle serving readers without end while the probes report changes. *)
(***************************************************************************)
\* a probe reports a status other than the one it reported last
ChangedStatusUpdate ==
  /\ \E status \in SentStatuses, backend \in Backends :
       /\ status # lastApplied[backend]
       /\ StatusUpdate(status, backend)
  /\ UNCHANGED monitorVars

\* a replica request is answered
ReaderRequest ==
  /\ ReplicaChoice
  /\ UNCHANGED <<readerLog, registryVars, callerVars, sessionVars,
                 monitorVars, requestVars, tunnelVars>>

NextReaders ==
  \/ ChangedStatusUpdate
  \/ ReaderRequest

(***************************************************************************)
(* keydatastore.go: the registry task and the three functions that talk    *)
(* to it over unbuffered channels.  A send completes in the step in which  *)
(* the registry task receives it, so registerBackendKey and                *)
(* deregisterBackedKey return in that step; any number of goroutines may   *)
(* be blocked in them.                                                     *)
(***************************************************************************)
\* goroutines that call getBackendForBackendKeyData
Callers == 1..NumCallers
\* backendKeyDataMessage values and backend strings the callers pass
CallerKeys == {[processId |-> 1, secretKey |-> s] : s \in 1..NumKeys}
CallerBackends == 1..NumCallerBackends

NoMsg == [kind |-> "none"]

\* store[register.key] = register.backend
StoreRegisterIfAbsent(st, key, backend) ==
  IF key \in DOMAIN st THEN st ELSE (key :> backend) @@ st
StoreRegister(st, key, backend) == (key :> backend) @@ st

\* delete(store, deregister.key)
StoreDeregisterAll(st, key) == <<>>
StoreDeregister(st, key) == [k \in (DOMAIN st) \ {key} |-> st[k]]

\* v, ok := store[get.key]; the value sent on returnChan
StoreGet(st, key) == IF key \in DOMAIN st THEN st[key] ELSE Nil

\* the history `written` with key set to backend
Written(w, key, backend) ==
  [k \in (DOMAIN w) \cup {key} |-> IF k = key THEN backend ELSE w[k]]

\* the registry task receives only in its select
RegistryAcceptsAnytime == TRUE
RegistryAccepts == regPc = "select"

RegistryInit ==
  /\ store = <<>>
  /\ regPc = "select"
  /\ regMsg = NoMsg
  /\ written = [k \in CallerKeys |-> Nil]

CallersInit ==
  /\ callPc = [c \in Callers |-> "idle"]
  /\ callKey = [c \in Callers |-> Nil]
  /\ mustSee = [c \in Callers |-> Nil]
  /\ lastGet = NoMsg

\* the backend the last register or deregister message received for key
\* asks for (Nil after a deregister, or when there was none)
LastReceived(key) ==
  IF regPc \in {"register", "deregister"} /\ regMsg.key = key
    THEN regMsg.backend
    ELSE IF key \in DOMAIN written THEN written[key] ELSE Nil

\* the goroutines inside a lookup of key
LookingUp(key) == {c \in Callers : callPc[c] # "idle" /\ callKey[c] = key}

\* the registry task receives message msg from registerBackendKeyChan or
\* deregisterBackedKeyChan; the sender returns
ReceiveWrite(msg) ==
  /\ RegistryAccepts
  /\ regPc' = msg.kind
  /\ regMsg' = msg
  /\ mustSee' = [c \in Callers |->
                   IF c \in LookingUp(msg.key) THEN Nil ELSE mustSee[c]]
  /\ lastGet' = NoMsg
  /\ UNCHANGED <<store, written, callPc, callKey, oracleVars,
                 monitorVars, requestVars>>

\* registerBackendKey(key, backend), up to its return
registerBackendKey(key, backend) ==
  ReceiveWrite([kind |-> "register", key |-> key, backend |-> backend])

\* deregisterBackedKey(key), up to its return
deregisterBackedKey(key) ==
  ReceiveWrite([kind |-> "deregister", key |-> key, backend |-> Nil])

\* case register: store[register.key] = register.backend
ApplyRegister ==
  /\ regPc = "register"
  /\ store' = StoreRegister(store, regMsg.key, regMsg.backend)
  /\ written' = Written(written, regMsg.key, regMsg.backend)
  /\ regPc' = "select"
  /\ regMsg' = NoMsg
  /\ UNCHANGED <<callerVars, oracleVars, sessionVars,
                 monitorVars, requestVars, tunnelVars>>

\* case deregister: delete(store, deregister.key)
ApplyDeregister ==
  /\ regPc = "deregister"
  /\ store' = StoreDeregister(store, regMsg.key)
  /\ written' = Written(written, regMsg.key, Nil)
  /\ regPc' = "select"
  /\ regMsg' = NoMsg
  /\ UNCHANGED <<callerVars, oracleVars, sessionVars,
                 monitorVars, requestVars, tunnelVars>>

\* a goroutine enters getBackendForBackendKeyData(key) and blocks in
\* getBackendForBackendKeyChan <- msg
CallGet(c, key) ==
  /\ callPc[c] = "idle"
  /\ callPc' = [callPc EXCEPT ![c] = "send"]
  /\ callKey' = [callKey EXCEPT ![c] = key]
  /\ mustSee' = [mustSee EXCEPT ![c] = LastReceived(key)]
  /\ UNCHANGED <<lastGet, registryVars, oracleVars, sessionVars,
                 monitorVars, requestVars, tunnelVars>>

\* case get := <-getBackendForBackendKeyChan; the caller goes on to
\* <-msg.returnChan
ReceiveGet(c) ==
  /\ callPc[c] = "send"
  /\ RegistryAccepts
  /\ regPc' = "get"
  /\ regMsg' = [kind |-> "get", key |-> callKey[c], backend |-> Nil,
                caller |-> c]
  /\ callPc' = [callPc EXCEPT ![c] = "recv"]
  /\ lastGet' = NoMsg
  /\ UNCHANGED <<store, written, callKey, mustSee, oracleVars, sessionVars,
                 monitorVars, requestVars, tunnelVars>>

\* get.returnChan <- &v (or nil); the caller receives it and returns it
ReplyGet ==
  /\ regPc = "get"
  /\ callPc[regMsg.caller] = "recv"
  /\ LET c == regMsg.caller
     IN /\ lastGet' = [kind |-> "get", key |-> regMsg.key,
                       result |-> StoreGet(store, regMsg.key),
                       mustSee |-> mustSee[c]]
        /\ callPc' = [callPc EXCEPT ![c] = "idle"]
        /\ callKey' = [callKey EXCEPT ![c] = Nil]
        /\ mustSee' = [mustSee EXCEPT ![c] = Nil]
  /\ regPc' = "select"
  /\ regMsg' = NoMsg
  /\ UNCHANGED <<store, written, oracleVars, sessionVars,
                 monitorVars, requestVars, tunnelVars>>

CallersRegister ==
  \E key \in CallerKeys, backend \in CallerBackends :
    registerBackendKey(key, backend) /\ UNCHANGED <<sessionVars, tunnelVars>>

CallersDeregister ==
  \E key \in CallerKeys :
    deregisterBackedKey(key) /\ UNCHANGED <<sessionVars, tunnelVars>>

CallersGet == \E c \in Callers, key \in CallerKeys : CallGet(c, key)

RegistryReceiveGet == \E c \in Callers : ReceiveGet(c)

NextRegistry ==
  \/ CallersRegister
  \/ CallersDeregister
  \/ CallersGet
  \/ RegistryReceiveGet
  \/ ApplyRegister
  \/ ApplyDeregister
  \/ ReplyGet

(***************************************************************************)
(* The wire format.  Bytes are numbers in 0..255, integers are signed 32   *)
(* bit big-endian.                                                         *)
(***************************************************************************)
\* binary.Write(w, binary.BigEndian, n) of an int32
EncodeInt32(n) ==
  <<(n \div 16777216) % 256, (n \div 65536) % 256, (n \div 256) % 256, n % 256>>

\* binary.Read(r, binary.BigEndian, &n) of an int32, from its four bytes
DecodeInt32(b) ==
  LET top == IF b[1] >= 128 THEN b[1] - 256 ELSE b[1]
  IN top * 16777216 + b[2] * 65536 + b[3] * 256 + b[4]

\* the type byte of BackendKeyData
TypeK == 75
\* the largest message size the handler accepts
MaxMessageSize == 8096

\* err.Error() of startupPacketSizeInvalid
SizeInvalidText ==
  <<84, 101, 114, 109, 105, 110, 97, 116, 105, 110, 103, 32, 99, 111, 110,
    110, 101, 99, 116, 105, 111, 110, 32, 116, 104, 97, 116, 32, 112, 114,
    111, 118, 105, 100, 101, 100, 32, 97, 110, 32, 97, 98, 110, 111, 114,
    109, 97, 108, 108, 121, 32, 115, 105, 122, 101, 100, 32, 115, 116, 97,
    114, 116, 117, 112, 32, 109, 101, 115, 115, 97, 103, 101, 32, 112, 97,
    99, 107, 101, 116>>

\* "Startup packet size invalid"
SizeInvalidStartupText ==
  <<83, 116, 97, 114, 116, 117, 112, 32, 112, 97, 99, 107, 101, 116, 32,
    115, 105, 122, 101, 32, 105, 110, 118, 97, 108, 105, 100>>

\* "Socket read error"
SocketReadErrorText ==
  <<83, 111, 99, 107, 101, 116, 32, 114, 101, 97, 100, 32, 101, 114, 114,
    111, 114>>

\* "Unsupported protocol version"
UnsupportedVersionText ==
  <<85, 110, 115, 117, 112, 112, 111, 114, 116, 101, 100, 32, 112, 114,
    111, 116, 111, 99, 111, 108, 32, 118, 101, 114, 115, 105, 111, 110>>

\* "Malformed startup packet"
MalformedPacketText ==
  <<77, 97, 108, 102, 111, 114, 109, 101, 100, 32, 115, 116, 97, 114, 116,
    117, 112, 32, 112, 97, 99, 107, 101, 116>>

\* "Missing database or user parameter"
MissingParameterText ==
  <<77, 105, 115, 115, 105, 110, 103, 32, 100, 97, 116, 97, 98, 97, 115,
    101, 32, 111, 114, 32, 117, 115, 101, 114, 32, 112, 97, 114, 97, 109,
    101, 116, 101, 114>>

\* "Unable to find satisfactory backend server"
NoBackendText ==
  <<85, 110, 97, 98, 108, 101, 32, 116, 111, 32, 102, 105, 110, 100, 32,
    115, 97, 116, 105, 115, 102, 97, 99, 116, 111, 114, 121, 32, 98, 97,
    99, 107, 101, 110, 100, 32, 115, 101, 114, 118, 101, 114>>

\* "Unable to connect to backend server"
ConnectFailedText ==
  <<85, 110, 97, 98, 108, 101, 32, 116, 111, 32, 99, 111, 110, 110, 101,
    99, 116, 32, 116, 111, 32, 98, 97, 99, 107, 101, 110, 100, 32, 115,
    101, 114, 118, 101, 114>>

\* "Backend network error"
BackendNetworkErrorText ==
  <<66, 97, 99, 107, 101, 110, 100, 32, 110, 101, 116, 119, 111, 114, 107,
    32, 101, 114, 114, 111, 114>>

\* sendError: errorMessageExcludingSize, fields S "ERROR", C "08000", M text
ErrorBodyNoSqlState(text) ==
  <<83, 69, 82, 82, 79, 82, 0>> \o <<77>> \o text \o <<0>> \o <<0>>
ErrorBody(text) ==
  <<83, 69, 82, 82, 79, 82, 0>> \o <<67, 48, 56, 48, 48, 48, 0>>
    \o <<77>> \o text \o <<0>> \o <<0>>

\* sendError: its three writes to conn
ErrorWrites(text) ==
  << <<69>>, EncodeInt32(Len(ErrorBody(text)) + 4), ErrorBody(text) >>

(***************************************************************************)
(* The backend and the client of one session.  The backend follows the     *)
(* PostgreSQL start-up: it either accepts the connection at once ("trust") *)
(* or first asks for a password and waits for the client's                 *)
(* PasswordMessage; then it sends BackendKeyData and ReadyForQuery and     *)
(* reads what the client sends next.                                       *)
(***************************************************************************)
\* the key the backend gives this session
BackendPid == 4242
BackendSecret == 287454020
BackendKey == [processId |-> BackendPid, secretKey |-> BackendSecret]

AuthenticationOk == <<82>> \o EncodeInt32(8) \o EncodeInt32(0)
AuthenticationCleartextPassword == <<82>> \o EncodeInt32(8) \o EncodeInt32(3)
BackendKeyData ==
  <<TypeK>> \o EncodeInt32(12) \o EncodeInt32(BackendPid)
    \o EncodeInt32(BackendSecret)
ReadyForQuery == <<90>> \o EncodeInt32(5) \o <<73>>
PasswordMessage == <<112>> \o EncodeInt32(5) \o <<0>>
Terminate == <<88>> \o EncodeInt32(4)

Send(msg) == [op |-> "send", msg |-> msg]
Await(msg) == [op |-> "await", msg |-> msg]

AuthModes == {"trust", "password"}

BackendScript(auth) ==
  IF auth = "trust"
    THEN <<Send(AuthenticationOk), Send(BackendKeyData), Send(ReadyForQuery),
           Await(Terminate)>>
    ELSE <<Send(AuthenticationCleartextPassword), Await(PasswordMessage),
           Send(AuthenticationOk), Send(BackendKeyData), Send(ReadyForQuery),
           Await(Terminate)>>

RECURSIVE SentUpTo(_, _)
\* the bytes the first n steps of a script send
SentUpTo(script, n) ==
  IF n = 0 THEN <<>>
  ELSE SentUpTo(script, n - 1)
         \o (IF script[n].op = "send" THEN script[n].msg ELSE <<>>)

\* everything the backend has sent so far
BackendSent == SentUpTo(BackendScript(authMode), bpos)

\* the backend has sent its BackendKeyData message
KeyDataSent ==
  \E i \in 1..bpos : BackendScript(authMode)[i] = Send(BackendKeyData)

IsPrefix(a, b) == Len(a) <= Len(b) /\ SubSeq(b, 1, Len(a)) = a

(***************************************************************************)
(* proxyPacketsUntilBackendKeyDataReceived.  Its locals are one record;    *)
(* pc names the read it is in ("type", "size", "pid", "secret", "body"),   *)
(* the Flush it is about to do ("flush", "flushK"), or how it ended        *)
(* ("error", "panic", "off").  The messages of the model are shorter than  *)
(* bufio's 4096 byte buffer, so Write never flushes by itself.             *)
(***************************************************************************)
SniffOff ==
  [pc |-> "off", typeBuffer |-> <<>>, field |-> <<>>, messageSize |-> 0,
   retval |-> [processId |-> 0, secretKey |-> 0], bufferedClient |-> <<>>]

SniffStart == [SniffOff EXCEPT !.pc = "type"]

\* after the four bytes of messageSize have been read
SniffAfterSizeUnchecked(sn, size) ==
  LET buffered == [sn EXCEPT !.messageSize = size, !.field = <<>>,
                     !.bufferedClient = @ \o EncodeInt32(size)]
  IN IF sn.typeBuffer = <<TypeK>> THEN [buffered EXCEPT !.pc = "pid"]
     ELSE IF size - 4 < 0 THEN [buffered EXCEPT !.pc = "panic"]
     ELSE IF size - 4 = 0 THEN [buffered EXCEPT !.pc = "flush"]
     ELSE [buffered EXCEPT !.pc = "body"]

SniffAfterSize(sn, size) ==
  IF size < 0 \/ size > MaxMessageSize
    THEN [sn EXCEPT !.messageSize = size, !.field = <<>>, !.pc = "error"]
    ELSE SniffAfterSizeUnchecked(sn, size)

\* the sniffer has read byte b from the backend
SniffByte(sn, b) ==
  LET f == sn.field \o <<b>>
  IN CASE sn.pc = "type" ->
            [sn EXCEPT !.typeBuffer = <<b>>, !.field = <<>>, !.pc = "size",
                       !.bufferedClient = @ \o <<b>>]
       [] sn.pc = "size" ->
            IF Len(f) < 4 THEN [sn EXCEPT !.field = f]
            ELSE SniffAfterSize(sn, DecodeInt32(f))
       [] sn.pc = "pid" ->
            IF Len(f) < 4 THEN [sn EXCEPT !.field = f]
            ELSE [sn EXCEPT !.retval.processId = DecodeInt32(f),
                            !.field = <<>>, !.pc = "secret"]
       [] sn.pc = "secret" ->
            IF Len(f) < 4 THEN [sn EXCEPT !.field = f]
            ELSE [sn EXCEPT !.retval.secretKey = DecodeInt32(f),
                            !.field = <<>>, !.pc = "flushK",
                            !.bufferedClient =
                               @ \o EncodeInt32(sn.retval.processId)
                                 \o EncodeInt32(DecodeInt32(f))]
       [] sn.pc = "body" ->
            IF Len(f) < sn.messageSize - 4 THEN [sn EXCEPT !.field = f]
            ELSE [sn EXCEPT !.field = <<>>, !.pc = "flush",
                            !.bufferedClient = @ \o f]

SniffReading == {"type", "size", "pid", "secret", "body"}

\* how many bytes the read the sniffer is in still asks for
SniffNeed(sn) ==
  CASE sn.pc = "type" -> 1
    [] sn.pc \in {"size", "pid", "secret"} -> 4 - Len(sn.field)
    [] sn.pc = "body" -> sn.messageSize - 4 - Len(sn.field)
    [] OTHER -> 0

RECURSIVE SniffBytes(_, _)
\* the sniffer has read the bytes bs, no more than it asked for
SniffBytes(sn, bs) ==
  IF bs = <<>> THEN sn ELSE SniffBytes(SniffByte(sn, Head(bs)), Tail(bs))

\* what a Read asking for n bytes returns when avail is there to be read
ReadCount(n, avail) == IF n < Len(avail) THEN n ELSE Len(avail)

\* where the handler goes when the sniffer's locals become sn
HandlerAfterSniff(sn) ==
  CASE sn.pc = "error" -> "err1"
    [] sn.pc = "panic" -> "crashed"
    [] OTHER -> "sniff"

(***************************************************************************)
(* handleIncomingConnection from net.Dial on.                              *)
(***************************************************************************)
SessionInit ==
  /\ hpc = "idle"
  /\ selected = Nil
  /\ sniff = SniffOff
  /\ copyPc = "off"
  /\ copyBuf = <<>>
  /\ connOpen = FALSE
  /\ upstreamOpen = FALSE
  /\ errText = <<>>
  /\ toProxy = <<>>
  /\ toBackend = <<>>
  /\ toClient = <<>>
  /\ fromClient = <<>>
  /\ authMode = "trust"
  /\ bpos = 0
  /\ clientPc = "wait"
  /\ relayed = <<>>
  /\ sessKey = <<>>
  /\ allowRecursion = TRUE
  /\ startupMessageSize = 0
  /\ protocolVersionNumber = 0
  /\ cancelKey = [processId |-> 0, secretKey |-> 0]
  /\ startupParameters = <<>>
  /\ wantReplica = FALSE
  /\ calls = <<>>
  /\ lastPacket = <<>>

\* A client has connected and sent its startup packet, the oracle has
\* answered backend: net.Dial, the startup packet is replayed, the goroutine
\* of io.Copy(conn, upstream) is started and the handler enters
\* proxyPacketsUntilBackendKeyDataReceived.
Dial(backend, auth) ==
  /\ hpc = "idle"
  /\ hpc' = "sniff"
  /\ selected' = backend
  /\ sniff' = SniffStart
  /\ copyPc' = "read"
  /\ connOpen' = TRUE
  /\ upstreamOpen' = TRUE
  /\ authMode' = auth
  /\ UNCHANGED <<copyBuf, errText, socketVars, bpos, clientPc, relayed, sessKey,
                 oracleVars, registryVars, callerVars,
                 startupVars,
                 monitorVars, requestVars, tunnelVars>>

\* net.Dial has succeeded and a write of the startup packet to upstream fails:
\* the handler goes on to sendError(conn, "Backend network error")
ReplayError(backend) ==
  /\ hpc = "idle"
  /\ hpc' = "err1"
  /\ selected' = backend
  /\ connOpen' = TRUE
  /\ upstreamOpen' = TRUE
  /\ errText' = BackendNetworkErrorText
  /\ UNCHANGED <<sniff, copyPc, copyBuf, socketVars, peerVars, relayed, sessKey,
                 oracleVars, registryVars, callerVars,
                 startupVars,
                 monitorVars, requestVars, tunnelVars>>

\* the backend sends the next message of its script
BackendSend ==
  /\ hpc # "idle"
  /\ bpos < Len(BackendScript(authMode))
  /\ BackendScript(authMode)[bpos + 1].op = "send"
  /\ toProxy' = toProxy \o BackendScript(authMode)[bpos + 1].msg
  /\ bpos' = bpos + 1
  /\ UNCHANGED <<handlerVars, toBackend, toClient, fromClient, authMode,
                 clientPc, relayed, sessKey, oracleVars, registryVars,
                 callerVars,
                 startupVars,
                 monitorVars, requestVars, tunnelVars>>

\* the backend reads the client message it is waiting for
BackendAwait ==
  /\ hpc # "idle"
  /\ bpos < Len(BackendScript(authMode))
  /\ BackendScript(authMode)[bpos + 1].op = "await"
  /\ IsPrefix(BackendScript(authMode)[bpos + 1].msg, toBackend)
  /\ toBackend' = SubSeq(toBackend,
                         Len(BackendScript(authMode)[bpos + 1].msg) + 1,
                         Len(toBackend))
  /\ bpos' = bpos + 1
  /\ UNCHANGED <<handlerVars, toProxy, toClient, fromClient, authMode,
                 clientPc, relayed, sessKey, oracleVars, registryVars,
                 callerVars,
                 startupVars,
                 monitorVars, requestVars, tunnelVars>>

\* the client has received the password request and answers it
ClientAnswer ==
  /\ clientPc = "wait"
  /\ authMode = "password"
  /\ IsPrefix(AuthenticationCleartextPassword, toClient)
  /\ fromClient' = fromClient \o PasswordMessage
  /\ clientPc' = "answered"
  /\ UNCHANGED <<handlerVars, toProxy, toBackend, toClient, authMode, bpos,
                 relayed, sessKey, oracleVars, registryVars, callerVars,
                 startupVars,
                 monitorVars, requestVars, tunnelVars>>

\* the client has received the whole start-up of the backend, as sent, and
\* sends a message of its own
ClientTerminate ==
  /\ clientPc \in {"wait", "answered"}
  /\ toClient = SentUpTo(BackendScript(authMode), Len(BackendScript(authMode)))
  /\ fromClient' = fromClient \o Terminate
  /\ clientPc' = "done"
  /\ UNCHANGED <<handlerVars, toProxy, toBackend, toClient, authMode, bpos,
                 relayed, sessKey, oracleVars, registryVars, callerVars,
                 startupVars,
                 monitorVars, requestVars, tunnelVars>>

\* the size of the buffer io.Copy reads into
CopyBufferSize == 32768

\* io.Copy(conn, upstream): upstream.Read returns what there is to read
CopierRead ==
  /\ copyPc = "read"
  /\ hpc # "crashed"
  /\ toProxy # <<>>
  /\ copyBuf' = SubSeq(toProxy, 1, ReadCount(CopyBufferSize, toProxy))
  /\ toProxy' = SubSeq(toProxy, ReadCount(CopyBufferSize, toProxy) + 1,
                       Len(toProxy))
  /\ copyPc' = "write"
  /\ UNCHANGED <<hpc, selected, sniff, connOpen, upstreamOpen, errText,
                 toBackend, toClient, fromClient, peerVars, relayed, sessKey, oracleVars,
                 registryVars, callerVars,
                 startupVars,
                 monitorVars, requestVars, tunnelVars>>

\* io.Copy(conn, upstream): conn.Write of what was read; it fails, and the
\* goroutine ends, once conn is closed
CopierWrite ==
  /\ copyPc = "write"
  /\ hpc # "crashed"
  /\ copyBuf' = <<>>
  /\ IF connOpen
       THEN /\ toClient' = toClient \o copyBuf
            /\ relayed' = relayed \o copyBuf
            /\ copyPc' = "read"
       ELSE /\ UNCHANGED <<toClient, relayed>>
            /\ copyPc' = "done"
  /\ UNCHANGED <<hpc, selected, sniff, connOpen, upstreamOpen, errText,
                 toProxy, toBackend, fromClient, peerVars, sessKey, oracleVars, registryVars,
                 callerVars,
                 startupVars,
                 monitorVars, requestVars, tunnelVars>>

\* proxyPacketsUntilBackendKeyDataReceived: a Read of backend returns what
\* there is of the bytes asked for; once the field is complete the code up to
\* the next read or Flush runs
SniffRead ==
  /\ hpc = "sniff"
  /\ sniff.pc \in SniffReading
  /\ toProxy # <<>>
  /\ sniff' = SniffBytes(sniff,
                SubSeq(toProxy, 1, ReadCount(SniffNeed(sniff), toProxy)))
  /\ toProxy' = SubSeq(toProxy, ReadCount(SniffNeed(sniff), toProxy) + 1,
                       Len(toProxy))
  /\ hpc' = HandlerAfterSniff(sniff')
  /\ errText' = IF sniff'.pc = "error" THEN SizeInvalidText ELSE errText
  /\ UNCHANGED <<selected, copyPc, copyBuf, connOpen, upstreamOpen, toBackend,
                 toClient, fromClient, peerVars, relayed, sessKey, oracleVars,
                 registryVars, callerVars,
                 startupVars,
                 monitorVars, requestVars, tunnelVars>>

\* bufferedClient.Flush(); after the Flush of BackendKeyData the function
\* returns and the handler goes on to registerBackendKey
SniffFlush ==
  /\ hpc = "sniff"
  /\ sniff.pc \in {"flush", "flushK"}
  /\ toClient' = toClient \o sniff.bufferedClient
  /\ relayed' = relayed \o sniff.bufferedClient
  /\ sniff' = [sniff EXCEPT !.bufferedClient = <<>>,
                            !.pc = IF sniff.pc = "flushK" THEN "off" ELSE "type"]
  /\ hpc' = IF sniff.pc = "flushK" THEN "register" ELSE "sniff"
  /\ UNCHANGED <<selected, copyPc, copyBuf, connOpen, upstreamOpen, errText,
                 toProxy, toBackend, fromClient, peerVars, sessKey, oracleVars, registryVars,
                 callerVars,
                 startupVars,
                 monitorVars, requestVars, tunnelVars>>

\* sendError(conn, text): its three writes, then the handler returns and the
\* deferred conn.Close() runs
SendError ==
  /\ hpc \in {"err1", "err2", "err3"}
  /\ LET i == CASE hpc = "err1" -> 1 [] hpc = "err2" -> 2 [] OTHER -> 3
     IN toClient' = toClient \o ErrorWrites(errText)[i]
  /\ hpc' = CASE hpc = "err1" -> "err2" [] hpc = "err2" -> "err3"
              [] OTHER -> "returned"
  /\ connOpen' = (hpc # "err3")
  /\ UNCHANGED <<selected, sniff, copyPc, copyBuf, upstreamOpen, errText,
                 toProxy, toBackend, fromClient, peerVars, relayed, sessKey,
                 oracleVars, registryVars, callerVars,
                 startupVars,
                 monitorVars, requestVars, tunnelVars>>

\* registerBackendKey(*backendKeyData, *backend); the handler goes on to
\* io.Copy(upstream, conn)
HandlerRegister ==
  /\ hpc = "register"
  /\ registerBackendKey(sniff.retval, selected)
  /\ hpc' = "tunnel"
  /\ sessKey' = Append(sessKey, sniff.retval)
  /\ UNCHANGED <<selected, sniff, copyPc, copyBuf, connOpen, upstreamOpen,
                 errText, socketVars, peerVars, relayed, startupVars,
                 tunnelVars>>

\* io.Copy(upstream, conn): what the client has sent is read and written to
\* the backend
TunnelCopy ==
  /\ hpc = "tunnel"
  /\ fromClient # <<>>
  /\ toBackend' = toBackend \o fromClient
  /\ fromClient' = <<>>
  /\ UNCHANGED <<handlerVars, toProxy, toClient, peerVars, relayed, sessKey,
                 oracleVars, registryVars, callerVars,
                 startupVars,
                 monitorVars, requestVars, tunnelVars>>

\* the client, having sent Terminate, closes its side of the connection
ClientClose ==
  /\ clientPc = "done"
  /\ clientPc' = "closed"
  /\ UNCHANGED <<handlerVars, socketVars, authMode, bpos, relayed, sessKey,
                 oracleVars, registryVars, callerVars,
                 startupVars,
                 monitorVars, requestVars, tunnelVars>>

\* io.Copy(upstream, conn) returns, with or without an error, once the client
\* has closed and everything it sent has been read; the handler returns by
\* line 264 or line 268 and its deferred calls start to run
TunnelEnd ==
  /\ hpc = "tunnel"
  /\ fromClient = <<>>
  /\ clientPc = "closed"
  /\ hpc' = "deregister"
  /\ UNCHANGED <<selected, sniff, copyPc, copyBuf, connOpen, upstreamOpen,
                 errText, socketVars, peerVars, relayed, sessKey, oracleVars,
                 registryVars, callerVars,
                 startupVars,
                 monitorVars, requestVars, tunnelVars>>

\* the deferred calls of the handler, last first:
\* deregisterBackedKey(*backendKeyData), then conn.Close()
HandlerReturnOnly ==
  /\ hpc = "deregister"
  /\ hpc' = "returned"
  /\ connOpen' = FALSE
  /\ UNCHANGED <<selected, sniff, copyPc, copyBuf, upstreamOpen, errText,
                 socketVars, peerVars, relayed, sessKey, oracleVars,
                 registryVars, callerVars,
                 startupVars,
                 monitorVars, requestVars, tunnelVars>>
HandlerDeregister ==
  /\ hpc = "deregister"
  /\ deregisterBackedKey(sniff.retval)
  /\ hpc' = "returned"
  /\ connOpen' = FALSE
  /\ UNCHANGED <<selected, sniff, copyPc, copyBuf, upstreamOpen, errText,
                 socketVars, peerVars, relayed, sessKey, startupVars,
                 tunnelVars>>

SessionDial == \E backend \in Backends, auth \in AuthModes : Dial(backend, auth)

SessionReplayError == \E backend \in Backends : ReplayError(backend)

NextSession ==
  \/ SessionDial
  \/ SessionReplayError
  \/ BackendSend
  \/ BackendAwait
  \/ ClientAnswer
  \/ ClientTerminate
  \/ CopierRead
  \/ CopierWrite
  \/ SniffRead
  \/ SniffFlush
  \/ SendError
  \/ HandlerRegister
  \/ TunnelCopy
  \/ ClientClose
  \/ TunnelEnd
  \/ HandlerDeregister
  \/ ApplyRegister
  \/ ApplyDeregister

(***************************************************************************)
(* readStartupMessageInternal and the start of handleIncomingConnection.   *)
(* Strings are sequences of bytes.                                         *)
(***************************************************************************)
ProtocolVersion == 196608
SSLRequestCode == 80877103
CancelRequestCode == 80877102

\* "database"
Database == <<100, 97, 116, 97, 98, 97, 115, 101>>
\* "user"
User == <<117, 115, 101, 114>>
\* "_replica"
ReplicaSuffix == <<95, 114, 101, 112, 108, 105, 99, 97>>

\* bytes.IndexByte(data, b): the index, from 0, of the first b in data, or -1
IndexByte(data, b) ==
  IF \E i \in 1..Len(data) : data[i] = b
    THEN (CHOOSE i \in 1..Len(data) :
            data[i] = b /\ \A j \in 1..(i - 1) : data[j] # b) - 1
    ELSE -1

\* strings.HasSuffix(str, suffix)
HasSuffix(str, suffix) ==
  /\ Len(str) >= Len(suffix)
  /\ SubSeq(str, Len(str) - Len(suffix) + 1, Len(str)) = suffix

\* data[n:]
DropBytes(data, n) == SubSeq(data, n + 1, Len(data))

RECURSIVE ParseParameters(_, _)
\* the loop of lines 128-150: the parameters read from data when params have
\* been read already; ok is FALSE when a terminator is missing
ParseParameters(data, params) ==
  LET nextZero == IndexByte(data, 0)
  IN IF nextZero = -1 THEN [ok |-> FALSE, params |-> params]
     ELSE IF nextZero = 0 THEN [ok |-> TRUE, params |-> params]
     ELSE LET name == SubSeq(data, 1, nextZero)
              rest == DropBytes(data, nextZero + 1)
              valueZero == IndexByte(rest, 0)
          IN IF valueZero = -1 THEN [ok |-> FALSE, params |-> params]
             ELSE ParseParameters(DropBytes(rest, valueZero + 1),
                                  (name :> SubSeq(rest, 1, valueZero))
                                     @@ params)

\* what readStartupMessageInternal does with one packet
StartupResult(kind, text) ==
  [kind |-> kind, text |-> text, size |-> 0, version |-> 0,
   key |-> [processId |-> 0, secretKey |-> 0], params |-> <<>>, read |-> 0]

\* the packet has version 196608: lines 126-152
ReadParameters(data, base) ==
  LET parsed == ParseParameters(DropBytes(data, 4), <<>>)
  IN IF parsed.ok THEN [base EXCEPT !.kind = "params", !.params = parsed.params]
     ELSE [base EXCEPT !.kind = "error", !.text = MalformedPacketText]

\* the packet is a CancelRequest: lines 95-103, up to the lookup
ReadCancelRequestReportsError(data, base) ==
  IF Len(data) < 12
    THEN [base EXCEPT !.kind = "error", !.text = SocketReadErrorText]
  ELSE [base EXCEPT !.kind = "cancel",
                    !.key = [processId |-> DecodeInt32(SubSeq(data, 5, 8)),
                             secretKey |-> DecodeInt32(SubSeq(data, 9, 12))]]
ReadCancelRequest(data, base) ==
  IF Len(data) < 12 THEN [base EXCEPT !.kind = "return"]
  ELSE [base EXCEPT !.kind = "cancel",
                    !.key = [processId |-> DecodeInt32(SubSeq(data, 5, 8)),
                             secretKey |-> DecodeInt32(SubSeq(data, 9, 12))]]

\* lines 78-124, for the startupMessageData read
ReadVersionNoRecursionCheck(data, base, allow) ==
  IF Len(data) < 4 THEN [base EXCEPT !.kind = "error", !.text = SocketReadErrorText]
  ELSE LET version == DecodeInt32(SubSeq(data, 1, 4))
           b == [base EXCEPT !.version = version]
       IN IF version = SSLRequestCode THEN [b EXCEPT !.kind = "ssl"]
          ELSE IF version = CancelRequestCode THEN ReadCancelRequest(data, b)
          ELSE IF version # ProtocolVersion
            THEN [b EXCEPT !.kind = "error", !.text = UnsupportedVersionText]
          ELSE ReadParameters(data, b)
ReadVersion(data, base, allow) ==
  IF Len(data) < 4 THEN [base EXCEPT !.kind = "error", !.text = SocketReadErrorText]
  ELSE LET version == DecodeInt32(SubSeq(data, 1, 4))
           b == [base EXCEPT !.version = version]
       IN IF version = SSLRequestCode /\ allow THEN [b EXCEPT !.kind = "ssl"]
          ELSE IF version = CancelRequestCode THEN ReadCancelRequest(data, b)
          ELSE IF version # ProtocolVersion
            THEN [b EXCEPT !.kind = "error", !.text = UnsupportedVersionText]
          ELSE ReadParameters(data, b)

\* lines 56-74, when the client has sent input and sends no more before the
\* read deadline: a read that asks for more than there is fails.
\* make([]byte, startupMessageSize-4) panics when the length is negative.
ReadPacket(input, allow) ==
  IF Len(input) < 4 THEN StartupResult("return", <<>>)
  ELSE LET size == DecodeInt32(SubSeq(input, 1, 4))
           base == [StartupResult("", <<>>) EXCEPT !.size = size, !.read = 4]
       IN IF size < 0 \/ size > MaxMessageSize
            THEN [base EXCEPT !.kind = "error", !.text = SizeInvalidStartupText]
          ELSE IF size - 4 < 0 THEN [base EXCEPT !.kind = "panic"]
          ELSE IF Len(input) < size
            THEN [base EXCEPT !.kind = "error", !.text = SocketReadErrorText,
                              !.read = Len(input)]
          ELSE ReadVersion(SubSeq(input, 5, size),
                           [base EXCEPT !.read = size], allow)

\* lines 175-184: ok, there is a database or a user parameter
HasRoutingName(params) == Database \in DOMAIN params \/ User \in DOMAIN params

\* dbName
RoutingNameUserFirst(params) ==
  IF User \in DOMAIN params THEN params[User]
  ELSE IF Database \in DOMAIN params THEN params[Database]
  ELSE <<>>
RoutingName(params) ==
  IF Database \in DOMAIN params THEN params[Database]
  ELSE IF User \in DOMAIN params THEN params[User]
  ELSE <<>>

\* wantReplica
WantsReplica(params) == HasSuffix(RoutingName(params), ReplicaSuffix)

\* startupParameters after line 189
RewriteParameters(params) ==
  IF WantsReplica(params)
    THEN (Database :> SubSeq(RoutingName(params), 1,
                             Len(RoutingName(params)) - 8)) @@ params
    ELSE params

RECURSIVE SerializeParameters(_, _)
\* lines 211-216, when range visits the keys in the order given
SerializeParameters(params, order) ==
  IF order = <<>> THEN <<>>
  ELSE Head(order) \o <<0>> \o params[Head(order)] \o <<0>>
         \o SerializeParameters(params, Tail(order))

\* the orders in which range may visit the keys of a map
KeyOrders(params) ==
  {order \in [1..Cardinality(DOMAIN params) -> DOMAIN params] :
     \A i, j \in 1..Cardinality(DOMAIN params) : order[i] = order[j] => i = j}

\* the startup packet written to upstream: lines 207-234
ReplayedPacketNoTerminator(params, order) ==
  LET excludingSize == EncodeInt32(ProtocolVersion)
                         \o SerializeParameters(params, order)
  IN EncodeInt32(Len(excludingSize) + 4) \o excludingSize
ReplayedPacket(params, order) ==
  LET excludingSize == EncodeInt32(ProtocolVersion)
                         \o SerializeParameters(params, order) \o <<0>>
  IN EncodeInt32(Len(excludingSize) + 4) \o excludingSize

\* the packets a client sends first: well-formed startup packets
Packet(version, body) ==
  EncodeInt32(8 + Len(body)) \o EncodeInt32(version) \o body

Pair(name, value) == name \o <<0>> \o value \o <<0>>

\* "app", "bob", and an option the proxy does not look at
App == <<97, 112, 112>>
Bob == <<98, 111, 98>>
Options == <<111, 112, 116, 105, 111, 110, 115>>

\* the parameter lists of the well-formed startup packets of the model
ParameterLists ==
  { Pair(Database, App),
    Pair(Database, App \o ReplicaSuffix),
    Pair(User, Bob),
    Pair(User, Bob \o ReplicaSuffix),
    Pair(User, Bob) \o Pair(Database, App),
    Pair(User, Bob \o ReplicaSuffix) \o Pair(Database, App),
    Pair(User, Bob) \o Pair(Database, App \o ReplicaSuffix),
    Pair(Database, ReplicaSuffix),
    Pair(Database, <<>>) \o Pair(User, Bob \o ReplicaSuffix),
    Pair(Database, App) \o Pair(Database, App \o ReplicaSuffix),
    Pair(Options, App \o ReplicaSuffix),
    <<>> }

StartupPackets == {Packet(ProtocolVersion, l \o <<0>>) : l \in ParameterLists}

SSLRequest == Packet(SSLRequestCode, <<>>)

\* packets that break the protocol: a length that is negative, too large or
\* too small, fewer bytes than the length announces, a missing terminator,
\* a version the proxy does not speak
BadLengthPackets ==
  {EncodeInt32(n) : n \in {-1, MaxMessageSize + 1, 0, 1, 2, 3, 4, 6}}
    \cup {EncodeInt32(6) \o <<0, 3>>}

ShortPackets ==
  { EncodeInt32(MaxMessageSize) \o EncodeInt32(ProtocolVersion),
    EncodeInt32(20) \o EncodeInt32(ProtocolVersion) \o User,
    <<0, 0>> }

UnterminatedPackets ==
  { Packet(ProtocolVersion, <<>>),
    Packet(ProtocolVersion, User),
    Packet(ProtocolVersion, User \o <<0>> \o Bob),
    Packet(ProtocolVersion, Pair(User, Bob)) }

WrongVersionPackets == {Packet(131072, <<0>>), Packet(196609, Pair(User, Bob) \o <<0>>)}

ViolatingPackets ==
  BadLengthPackets \cup ShortPackets \cup UnterminatedPackets
    \cup WrongVersionPackets

\* the keys CancelRequests name: those sessions register and one nobody has
CancelKeys == CallerKeys \cup {[processId |-> -1, secretKey |-> -2]}

CancelRequest(k) ==
  Packet(CancelRequestCode, EncodeInt32(k.processId) \o EncodeInt32(k.secretKey))

\* CancelRequests, whole and cut short after the code or after the processId
CancelPackets ==
  {CancelRequest(k) : k \in CancelKeys}
    \cup {Packet(CancelRequestCode, <<>>)}
    \cup {Packet(CancelRequestCode, EncodeInt32(k.processId)) : k \in CancelKeys}

\* a CancelRequest followed by four more bytes, its length field 20
LongCancelPackets ==
  {Packet(CancelRequestCode, EncodeInt32(k.processId)
            \o EncodeInt32(k.secretKey) \o <<0, 0, 0, 0>>) : k \in CancelKeys}

\* a client connects and sends packet p, or sends p after the proxy has
\* answered its SSLRequest; it sends nothing more before the read deadline
ClientSend(p) ==
  /\ hpc = "idle" \/ (hpc = "startup" /\ ~allowRecursion)
  /\ fromClient = <<>>
  /\ fromClient' = p
  /\ lastPacket' = p
  /\ hpc' = "startup"
  /\ connOpen' = TRUE
  /\ UNCHANGED <<selected, sniff, copyPc, copyBuf, upstreamOpen, errText,
                 toProxy, toBackend, toClient, peerVars, relayed, sessKey,
                 allowRecursion, startupMessageSize, protocolVersionNumber,
                 cancelKey, startupParameters, wantReplica, calls, oracleVars,
                 registryVars, callerVars,
                 monitorVars, requestVars, tunnelVars>>

\* where the handler is after readStartupMessage has returned r
AfterReadStartup(r) ==
  CASE r.kind = "return" -> "returned"
    [] r.kind = "panic" -> "crashed"
    [] r.kind = "error" -> "err1"
    [] r.kind = "ssl" -> "startup"
    [] r.kind = "cancel" -> "lookup"
    [] r.kind = "params" ->
         IF HasRoutingName(r.params) THEN "request" ELSE "err1"

\* readStartupMessageInternal for the packet that has arrived, and the
\* handler's lines 161-189: up to the next packet to read, the lookup of a
\* CancelRequest, the request to the oracle, sendError, or a return
ReadStartup ==
  /\ hpc = "startup"
  /\ fromClient # <<>>
  /\ LET r == ReadPacket(fromClient, allowRecursion)
     IN /\ hpc' = AfterReadStartup(r)
        /\ fromClient' = DropBytes(fromClient, r.read)
        /\ startupMessageSize' = r.size
        /\ protocolVersionNumber' = r.version
        /\ cancelKey' = r.key
        /\ allowRecursion' = (allowRecursion /\ r.kind # "ssl")
        /\ toClient' = IF r.kind = "ssl" THEN toClient \o <<78>> ELSE toClient
        /\ errText' = IF r.kind = "error" THEN r.text
                      ELSE IF r.kind = "params" /\ ~HasRoutingName(r.params)
                        THEN MissingParameterText
                      ELSE errText
        /\ startupParameters' =
             IF r.kind = "params" /\ HasRoutingName(r.params)
               THEN RewriteParameters(r.params)
               ELSE r.params
        /\ wantReplica' = (r.kind = "params" /\ HasRoutingName(r.params)
                             /\ WantsReplica(r.params))
        /\ connOpen' = (r.kind # "return")
  /\ UNCHANGED <<selected, sniff, copyPc, copyBuf, upstreamOpen, toProxy,
                 toBackend, peerVars, relayed, sessKey, calls, lastPacket,
                 oracleVars, registryVars, callerVars,
                 monitorVars, requestVars, tunnelVars>>

Call(op, backend) == [op |-> op, backend |-> backend]

\* getBackendForBackendKeyData(key): the registry task receives the message
CancelLookupSend ==
  /\ hpc = "lookup"
  /\ RegistryAccepts
  /\ regPc' = "get"
  /\ regMsg' = [kind |-> "get", key |-> cancelKey, backend |-> Nil,
                caller |-> Nil]
  /\ lastGet' = NoMsg
  /\ hpc' = "lookupRecv"
  /\ calls' = Append(calls, Call("lookup", Nil))
  /\ UNCHANGED <<store, written, callPc, callKey, mustSee, oracleVars,
                 selected, sniff, copyPc, copyBuf, connOpen, upstreamOpen,
                 errText, socketVars, peerVars, relayed, sessKey,
                 allowRecursion, startupMessageSize, protocolVersionNumber,
                 cancelKey, startupParameters, wantReplica, lastPacket,
                 monitorVars, requestVars, tunnelVars>>

\* the registry task answers on returnChan; with no backend the handler
\* returns (line 120, then line 167) and conn is closed
CancelLookupReply ==
  /\ hpc = "lookupRecv"
  /\ regPc = "get"
  /\ selected' = StoreGet(store, regMsg.key)
  /\ regPc' = "select"
  /\ regMsg' = NoMsg
  /\ hpc' = IF selected' = Nil THEN "returned" ELSE "cancelDial"
  /\ connOpen' = (selected' # Nil)
  /\ UNCHANGED <<store, written, callerVars, oracleVars, sniff, copyPc,
                 copyBuf, upstreamOpen, errText, socketVars, peerVars,
                 relayed, sessKey, startupVars,
                 monitorVars, requestVars, tunnelVars>>

\* the four writes of lines 112-115
CancelWritesKeyOnly(size, version, k) ==
  EncodeInt32(k.processId) \o EncodeInt32(k.secretKey)
CancelWrites(size, version, k) ==
  EncodeInt32(size) \o EncodeInt32(version) \o EncodeInt32(k.processId)
    \o EncodeInt32(k.secretKey)

\* lines 110-120: net.Dial(*backend); when it succeeds the packet is written
\* and backendConn is closed; the handler returns and conn is closed
CancelDial(ok) ==
  /\ hpc = "cancelDial"
  /\ calls' = IF ok
                THEN calls \o <<Call("dial", selected), Call("close", selected)>>
                ELSE Append(calls, Call("dial", selected))
  /\ toBackend' = IF ok
                    THEN toBackend \o CancelWrites(startupMessageSize,
                                         protocolVersionNumber, cancelKey)
                    ELSE toBackend
  /\ hpc' = "returned"
  /\ connOpen' = FALSE
  /\ UNCHANGED <<selected, sniff, copyPc, copyBuf, upstreamOpen, errText,
                 toProxy, toClient, fromClient, peerVars, relayed, sessKey,
                 allowRecursion, startupMessageSize, protocolVersionNumber,
                 cancelKey, startupParameters, wantReplica, lastPacket, oracleVars,
                 registryVars, callerVars,
                 monitorVars, requestVars, tunnelVars>>

\* lines 200-204: where the handler goes with the oracle's reply
AfterOracleReplyAlwaysDial(backend) == "dial"
AfterOracleReply(backend) == IF backend = Nil THEN "err1" ELSE "dial"

\* lines 192-204: the request on replicaRequestChannel or masterRequestChannel
\* and the oracle's reply
HandlerRequest ==
  /\ hpc = "request"
  /\ IF wantReplica THEN ReplicaReply ELSE MasterReply
  /\ selected' = reply'.backend
  /\ calls' = Append(calls, Call(reply'.kind, Nil))
  /\ hpc' = AfterOracleReply(reply'.backend)
  /\ errText' = IF reply'.backend = Nil THEN NoBackendText ELSE errText
  /\ UNCHANGED <<sniff, copyPc, copyBuf, connOpen, upstreamOpen, socketVars,
                 peerVars, relayed, sessKey, allowRecursion,
                 startupMessageSize, protocolVersionNumber, cancelKey,
                 startupParameters, wantReplica, lastPacket, registryVars,
                 callerVars, monitorVars, requestVars, tunnelVars>>

DialOutcomes == {"ok", "refused", "writeError"}

\* lines 207-248: net.Dial(*backend) and the replay of the startup packet,
\* range visiting the parameters in the given order; then the goroutine of
\* io.Copy(conn, upstream) is started and the handler enters
\* proxyPacketsUntilBackendKeyDataReceived
StartupDial(outcome, order) ==
  /\ hpc = "dial"
  /\ calls' = Append(calls, Call("dial", selected))
  /\ upstreamOpen' = (outcome # "refused")
  /\ toBackend' = IF outcome = "ok"
                    THEN toBackend \o ReplayedPacket(startupParameters, order)
                    ELSE toBackend
  /\ hpc' = IF outcome = "ok" THEN "sniff" ELSE "err1"
  /\ errText' = CASE outcome = "ok" -> errText
                  [] outcome = "refused" -> ConnectFailedText
                  [] outcome = "writeError" -> BackendNetworkErrorText
  /\ sniff' = IF outcome = "ok" THEN SniffStart ELSE sniff
  /\ copyPc' = IF outcome = "ok" THEN "read" ELSE copyPc
  /\ UNCHANGED <<selected, copyBuf, connOpen, toProxy, toClient, fromClient,
                 peerVars, relayed, sessKey, allowRecursion,
                 startupMessageSize, protocolVersionNumber, cancelKey,
                 startupParameters, wantReplica, lastPacket, oracleVars,
                 registryVars,
                 callerVars,
                 monitorVars, requestVars, tunnelVars>>

\* the backends whose probes report while a client starts up
NumStartupBackends == 2
StartupBackends == 1..NumStartupBackends

\* The oracle applies a status update.  Updates applied while the handler
\* runs its own steps commute with those steps; they are applied before the
\* client connects or while the handler waits to send its request.
StartupStatusUpdate ==
  /\ hpc \in {"idle", "request"}
  /\ \E status \in SentStatuses, backend \in StartupBackends :
       StatusUpdate(status, backend)
  /\ UNCHANGED <<monitorVars, requestVars, tunnelVars>>

StartupClientSend ==
  \E p \in StartupPackets \cup ViolatingPackets \cup {SSLRequest} : ClientSend(p)

HandlerDial ==
  \E outcome \in DialOutcomes, order \in KeyOrders(startupParameters) :
    StartupDial(outcome, order)

NextStartup ==
  \/ StartupClientSend
  \/ ReadStartup
  \/ HandlerRequest
  \/ HandlerDial
  \/ SendError
  \/ StartupStatusUpdate

CancelClientSend ==
  \E p \in CancelPackets \cup LongCancelPackets \cup {SSLRequest} : ClientSend(p)

HandlerCancelDial == \E ok \in BOOLEAN : CancelDial(ok)

NextCancel ==
  \/ CancelClientSend
  \/ ReadStartup
  \/ CancelLookupSend
  \/ CancelLookupReply
  \/ HandlerCancelDial
  \/ SendError
  \/ CallersRegister
  \/ CallersDeregister
  \/ ApplyRegister
  \/ ApplyDeregister

(***************************************************************************)
(* monitorBackend.  Each goroutine probes one backend in a loop; what      *)
(* sql.Open, db.Query, rows.Scan and rows.Err return is chosen by the      *)
(* backend.  A send on serverStatusUpdateChannel completes when the oracle *)
(* receives the update.                                                    *)
(***************************************************************************)
\* the backends that are probed
NumProbes == 1
Probes == 1..NumProbes
\* the most rows a query returns
MaxRows == 1
\* Of each probe the model also records, for the iteration it is in, whether
\* a rows.Scan failed (scanFailed) and the statuses it has sent (emitted).

\* what rows.Scan does with a row: it fails, or it sets inRecovery
ScanResults == {"error", "true", "false"}

RECURSIVE RowsUpTo(_)
\* the sequences of at most n rows
RowsUpTo(n) ==
  IF n = 0 THEN {<<>>}
  ELSE RowsUpTo(n - 1)
         \cup {Append(rows, r) : rows \in {q \in RowsUpTo(n - 1) : Len(q) = n - 1},
                                 r \in ScanResults}

\* what one probe of the backend returns: sql.Open fails, db.Query fails, or
\* the query returns rows and rows.Err() is nil or an error
ProbeOutcomes ==
  {[open |-> FALSE, query |-> FALSE, rows |-> <<>>, rowsErr |-> FALSE],
   [open |-> TRUE, query |-> FALSE, rows |-> <<>>, rowsErr |-> FALSE]}
    \cup {[open |-> TRUE, query |-> TRUE, rows |-> rows, rowsErr |-> e] :
            rows \in RowsUpTo(MaxRows), e \in BOOLEAN}

MonitorInit ==
  probe = [b \in Probes |->
             [pc |-> "top", first |-> TRUE, status |-> StatusUnknown,
              inRecovery |-> FALSE, rows |-> <<>>, rowsErr |-> FALSE,
              after |-> "top", scanFailed |-> FALSE, emitted |-> <<>>]]

\* if status != s { status = s; serverStatusUpdateChannel <- {s, backend} },
\* then on to position next: the locals of the goroutine afterwards
ReportAlways(p, s, next) ==
  [p EXCEPT !.status = s, !.pc = "send", !.after = next]
Report(p, s, next) ==
  IF p.status # s
    THEN [p EXCEPT !.status = s, !.pc = "send", !.after = next]
    ELSE [p EXCEPT !.pc = next]

\* lines 89-113: the sleep, sql.Open and db.Query
ProbeQuery(b, outcome) ==
  /\ probe[b].pc = "top"
  /\ LET p == [probe[b] EXCEPT !.first = FALSE, !.inRecovery = FALSE,
                               !.scanFailed = FALSE, !.emitted = <<>>]
     IN probe' = [probe EXCEPT ![b] =
          IF ~outcome.open \/ ~outcome.query
            THEN Report(p, StatusDown, "top")
            ELSE [p EXCEPT !.pc = "rows", !.rows = outcome.rows,
                           !.rowsErr = outcome.rowsErr]]
  /\ UNCHANGED <<oracleVars, registryVars, callerVars, sessionVars, requestVars, tunnelVars>>

\* lines 116-126: rows.Next() is true and rows.Scan is called; the continue
\* of line 124 goes on with the next row
ProbeScan(b) ==
  /\ probe[b].pc = "rows"
  /\ probe[b].rows # <<>>
  /\ LET p == [probe[b] EXCEPT !.rows = Tail(@)]
         row == Head(probe[b].rows)
     IN probe' = [probe EXCEPT ![b] =
          IF row = "error"
            THEN Report([p EXCEPT !.scanFailed = TRUE], StatusBroken, "rows")
            ELSE [p EXCEPT !.inRecovery = (row = "true")]]
  /\ UNCHANGED <<oracleVars, registryVars, callerVars, sessionVars, requestVars, tunnelVars>>

\* lines 127-149: rows.Next() is false; rows.Err(), then the classification
\* by inRecovery
ProbeClassify(b) ==
  /\ probe[b].pc = "rows"
  /\ probe[b].rows = <<>>
  /\ probe' = [probe EXCEPT ![b] =
       IF probe[b].rowsErr THEN Report(probe[b], StatusBroken, "top")
       ELSE IF probe[b].inRecovery THEN Report(probe[b], StatusReplica, "top")
       ELSE Report(probe[b], StatusMaster, "top")]
  /\ UNCHANGED <<oracleVars, registryVars, callerVars, sessionVars, requestVars, tunnelVars>>

\* serverStatusUpdateChannel <- serverStatusUpdate{status, backend}: the
\* oracle receives the update and applies it
ProbeSend(b) ==
  /\ probe[b].pc = "send"
  /\ StatusUpdate(probe[b].status, b)
  /\ probe' = [probe EXCEPT ![b] =
       [@ EXCEPT !.pc = probe[b].after,
                 !.emitted = Append(@, probe[b].status)]]

MonitorQuery == \E b \in Probes, outcome \in ProbeOutcomes : ProbeQuery(b, outcome)

MonitorScan == \E b \in Probes : ProbeScan(b)

MonitorClassify == \E b \in Probes : ProbeClassify(b)

MonitorSend == \E b \in Probes : ProbeSend(b)

NextMonitor ==
  \/ MonitorQuery
  \/ MonitorScan
  \/ MonitorClassify
  \/ MonitorSend

(***************************************************************************)
(* The request of a handler to the oracle (receiver.go lines 191-199 and   *)
(* the two request cases of the oracle's select), one channel operation at *)
(* a time.  All channels are unbuffered: a send completes in the step in   *)
(* which the other side receives.                                          *)
(***************************************************************************)
\* number of handlers that ask the oracle for a backend
NumHandlers == 1
Handlers == 1..NumHandlers

RequestInit ==
  /\ oraclePc = "select"
  /\ responseChannel = Nil
  /\ handlers = [h \in Handlers |->
                   [pc |-> "idle", wantReplica |-> FALSE, backend |-> Nil,
                    replies |-> 0]]

\* lines 191-197: the handler makes its responseChannel and starts to send
\* the request on replicaRequestChannel or masterRequestChannel
RequestSend(h, replica) ==
  /\ handlers[h].pc \in {"idle", "done"}
  /\ handlers' = [handlers EXCEPT ![h] =
       [pc |-> "send", wantReplica |-> replica, backend |-> Nil,
        replies |-> 0]]
  /\ UNCHANGED <<oracleVars, registryVars, callerVars, sessionVars,
                 monitorVars, oraclePc, responseChannel, tunnelVars>>

\* where the oracle is after it took a request: at the send on the
\* request's responseChannel
OracleAfterRequestNoReply == "select"
OracleAfterRequest == "reply"

\* the oracle's select takes the request of handler h, whose send
\* completes; the handler goes on to <-responseChannel (line 198)
OracleReceive(h) ==
  /\ oraclePc = "select"
  /\ handlers[h].pc = "send"
  /\ IF handlers[h].wantReplica
       THEN ReplicaChoice /\ UNCHANGED readerLog
       ELSE MasterReply
  /\ oraclePc' = OracleAfterRequest
  /\ responseChannel' = h
  /\ handlers' = [handlers EXCEPT ![h] = [@ EXCEPT !.pc = "receive"]]
  /\ UNCHANGED <<registryVars, callerVars, sessionVars, monitorVars,
                 tunnelVars>>

\* responseChannel <- masterServer / nil / &replica, received by the handler
\* at line 198; the oracle is back at its select
OracleReply ==
  /\ oraclePc = "reply"
  /\ handlers[responseChannel].pc = "receive"
  /\ handlers' = [handlers EXCEPT ![responseChannel] =
       [@ EXCEPT !.pc = "done", !.wantReplica = FALSE,
                 !.backend = reply.backend, !.replies = @ + 1]]
  /\ oraclePc' = "select"
  /\ responseChannel' = Nil
  /\ UNCHANGED <<oracleVars, registryVars, callerVars, sessionVars,
                 monitorVars, tunnelVars>>

\* The iterations of monitorBackend (lines 89-149) up to the next send,
\* taken as one step: whatever sql.Open, db.Query, rows.Scan and rows.Err
\* return, the goroutine touches no channel until it finds a status s other
\* than the one it has, sets it and offers it on serverStatusUpdateChannel.
\* (An iteration that sends twice is two such steps.)
ProbeIterate(b, s) ==
  /\ probe[b].pc = "top"
  /\ s # probe[b].status
  /\ probe' = [probe EXCEPT ![b] =
       Report([probe[b] EXCEPT !.first = FALSE, !.scanFailed = FALSE,
                               !.emitted = <<>>], s, "top")]
  /\ UNCHANGED <<oracleVars, registryVars, callerVars, sessionVars, requestVars, tunnelVars>>

MonitorIterate == \E b \in Probes, s \in SentStatuses : ProbeIterate(b, s)

HandlerRequestSend ==
  \E h \in Handlers, replica \in BOOLEAN : RequestSend(h, replica)

OracleRequestReceive == \E h \in Handlers : OracleReceive(h)

NextRequests ==
  \/ HandlerRequestSend
  \/ OracleRequestReceive
  \/ OracleReply
  \/ MonitorIterate
  \/ MonitorSend

(***************************************************************************)
(* Several sessions around their tunnels (receiver.go lines 255-268): each *)
(* handler registers the key its backend sent, copies until the client     *)
(* closes, and deregisters the key when it returns.  The key is whatever   *)
(* the session's backend sent: two backends may send the same one.         *)
(***************************************************************************)
\* number of sessions
NumSessions == 2
Sessions == 1..NumSessions

NoKey == [processId |-> 0, secretKey |-> 0]

TunnelInit ==
  tunnels = [s \in Sessions |->
               [pc |-> "start", key |-> NoKey, backend |-> Nil,
                shared |-> FALSE]]

\* the sessions that are in their tunnel with the given key
Holding(key) ==
  {t \in Sessions : tunnels[t].pc = "tunnel" /\ tunnels[t].key = key}

\* line 255: registerBackendKey(*backendKeyData, *backend), then the handler
\* of session s is in io.Copy(upstream, conn)
TunnelRegister(s, key, backend) ==
  /\ tunnels[s].pc = "start"
  /\ registerBackendKey(key, backend)
  /\ tunnels' = [t \in Sessions |->
       IF t = s
         THEN [pc |-> "tunnel", key |-> key, backend |-> backend,
               shared |-> Holding(key) # {}]
       ELSE IF t \in Holding(key) THEN [tunnels[t] EXCEPT !.shared = TRUE]
       ELSE tunnels[t]]
  /\ UNCHANGED sessionVars

\* lines 260-268 and the deferred call of line 256: io.Copy returns and
\* deregisterBackedKey(*backendKeyData) runs as the handler returns
TunnelReturn(s) ==
  /\ tunnels[s].pc = "tunnel"
  /\ deregisterBackedKey(tunnels[s].key)
  /\ tunnels' = [tunnels EXCEPT ![s] =
       [pc |-> "returned", key |-> NoKey, backend |-> Nil, shared |-> FALSE]]
  /\ UNCHANGED sessionVars

SessionsRegister ==
  \E s \in Sessions, key \in CallerKeys, backend \in CallerBackends :
    TunnelRegister(s, key, backend)

SessionsReturn == \E s \in Sessions : TunnelReturn(s)

\* one handler of a CancelRequest looking a key up (receiver.go line 105);
\* lookups do not change the store, so one at a time shows what any sees
LookupCall == \E key \in CallerKeys : CallGet(1, key)

LookupReceive == ReceiveGet(1)

NextTunnels ==
  \/ SessionsRegister
  \/ SessionsReturn
  \/ LookupCall
  \/ LookupReceive
  \/ ApplyRegister
  \/ ApplyDeregister
  \/ ReplyGet

(***************************************************************************)
(* The specifications.  Each starts with every component as main leaves it *)
(* and lets one component run.                                             *)
(***************************************************************************)
InitOracle ==
  OracleInit /\ RegistryInit /\ CallersInit /\ SessionInit /\ MonitorInit
    /\ RequestInit /\ TunnelInit

SpecOracle == InitOracle /\ [][NextOracle]_vars

InitRegistry ==
  OracleInit /\ RegistryInit /\ CallersInit /\ SessionInit /\ MonitorInit
    /\ RequestInit /\ TunnelInit

SpecRegistry == InitRegistry /\ [][NextRegistry]_vars

InitSession ==
  OracleInit /\ RegistryInit /\ CallersInit /\ SessionInit /\ MonitorInit
    /\ RequestInit /\ TunnelInit

SpecSession == InitSession /\ [][NextSession]_vars

InitStartup ==
  OracleInit /\ RegistryInit /\ CallersInit /\ SessionInit /\ MonitorInit
    /\ RequestInit /\ TunnelInit

SpecStartup == InitStartup /\ [][NextStartup]_vars

InitCancel ==
  OracleInit /\ RegistryInit /\ CallersInit /\ SessionInit /\ MonitorInit
    /\ RequestInit /\ TunnelInit

SpecCancel == InitCancel /\ [][NextCancel]_vars

InitMonitor ==
  OracleInit /\ RegistryInit /\ CallersInit /\ SessionInit /\ MonitorInit
    /\ RequestInit /\ TunnelInit

SpecMonitor == InitMonitor /\ [][NextMonitor]_vars

InitRequests ==
  OracleInit /\ RegistryInit /\ CallersInit /\ SessionInit /\ MonitorInit
    /\ RequestInit /\ TunnelInit

InitInsertion ==
  OracleInitFor(Replicas) /\ RegistryInit /\ CallersInit /\ SessionInit
    /\ MonitorInit /\ RequestInit /\ TunnelInit

SpecInsertion == InitInsertion /\ [][NextInsertion]_vars

InitReaders ==
  OracleInit /\ RegistryInit /\ CallersInit /\ SessionInit /\ MonitorInit
    /\ RequestInit /\ TunnelInit

SpecReaders == InitReaders /\ [][NextReaders]_vars

\* clients keep coming: a replica request that can be made is made
LiveReaders == SpecReaders /\ WF_vars(ReaderRequest)

InitTunnels ==
  OracleInit /\ RegistryInit /\ CallersInit /\ SessionInit /\ MonitorInit
    /\ RequestInit /\ TunnelInit

SpecTunnels == InitTunnels /\ [][NextTunnels]_vars

SpecRequests == InitRequests /\ [][NextRequests]_vars

\* The Go scheduler runs every goroutine that can run, a goroutine blocked
\* in a channel send is served in the order of arrival, and select chooses
\* at random among the cases that are ready: the oracle's send of the reply
\* happens once the handler receives, and a request or status update that
\* is offered again and again at the select is taken.
LiveRequests ==
  /\ SpecRequests
  /\ WF_vars(OracleReply)
  /\ \A h \in Handlers : SF_vars(OracleReceive(h))
  /\ \A b \in Probes : SF_vars(ProbeSend(b))

(***************************************************************************)
(* Properties of the oracle.                                               *)
(***************************************************************************)
RingSet(r) == {r[i] : i \in 1..Len(r)}
NoDuplicates(r) == \A i, j \in 1..Len(r) : r[i] = r[j] => i = j
Count(seq, x) == Cardinality({i \in 1..Len(seq) : seq[i] = x})

\* C1: in every reachable state the master, if set, is not in the replica
\* ring, and no backend is in the ring more than once.
C1_MasterNotInRing ==
  /\ masterServer # Nil => masterServer \notin RingSet(replicaServers)
  /\ NoDuplicates(replicaServers)

\* a replica has just been promoted while other replicas stay in the ring
C1_Witness ==
  /\ lastEvent.status = StatusMaster
  /\ lastEvent.backend \in RingSet(ringBefore)
  /\ masterServer = lastEvent.backend
  /\ Len(replicaServers) >= 1

\* C2: after the update (id, Master), with no other update in between, a
\* writer request is answered id; and as long as the last update applied for
\* id is Master, no reader request is answered id.
C2_MasterHandedToWriters ==
  /\ (lastEvent.status = StatusMaster /\ reply.kind = "writer")
        => reply.backend = lastEvent.backend
  /\ \A id \in Backends :
        lastApplied[id] = StatusMaster => id \notin RingSet(readerLog)

\* a former replica was promoted, readers and then a writer were served
C2_Witness ==
  /\ lastEvent.status = StatusMaster
  /\ lastEvent.backend \in RingSet(ringBefore)
  /\ Len(readerLog) >= 2
  /\ readerLog[1] # Nil
  /\ reply.kind = "writer"

\* C3: after an update other than Master for the current master, with no
\* other update in between, a writer request is answered empty; an update
\* for a backend that is not the current master never leaves the oracle
\* without master.
C3_DemotedMasterCleared ==
  /\ ( /\ lastEvent.status \in {StatusReplica, StatusDown, StatusBroken}
       /\ lastEvent.backend = masterBefore
       /\ reply.kind = "writer" ) => reply.backend = Nil
  /\ ( /\ lastEvent.backend # Nil
       /\ masterBefore # Nil
       /\ lastEvent.backend # masterBefore ) => masterServer # Nil

\* the master went down and a writer was then answered
C3_Witness ==
  /\ lastEvent.status = StatusDown
  /\ lastEvent.backend = masterBefore
  /\ reply.kind = "writer"

\* C4: with k >= 1 replicas and no update in between, any k consecutive
\* reader replies are the k replicas, each once, so N replies name each
\* replica at least N \div k times; with an empty ring the reply is empty.
C4_RoundRobin ==
  LET k == Len(replicaServers)
      N == Len(readerLog)
  IN /\ k = 0 => \A i \in 1..N : readerLog[i] = Nil
     /\ k >= 1 =>
          /\ \A i \in 1..N : i + k - 1 <= N =>
                /\ {readerLog[j] : j \in i..(i + k - 1)} = RingSet(replicaServers)
                /\ \A j1, j2 \in i..(i + k - 1) :
                      readerLog[j1] = readerLog[j2] => j1 = j2
          /\ \A r \in RingSet(replicaServers) : Count(readerLog, r) >= N \div k

\* every backend is a replica and the ring has wrapped at least once
C4_Witness ==
  /\ Len(replicaServers) = NumBackends
  /\ Len(readerLog) = MaxReads

\* C5: a writer request is answered id only if the last update applied for
\* id is Master, a reader request is answered id only if the last update
\* applied for id is Replica.
C5_ReplyHasRequestedRole ==
  /\ (reply.kind = "writer" /\ reply.backend # Nil)
        => lastApplied[reply.backend] = StatusMaster
  /\ (reply.kind = "reader" /\ reply.backend # Nil)
        => lastApplied[reply.backend] = StatusReplica

\* a replica went down and a reader was then answered with another one
C5_Witness ==
  /\ reply.kind = "reader"
  /\ reply.backend # Nil
  /\ lastEvent.status \in {StatusDown, StatusBroken}
  /\ lastEvent.backend \in RingSet(ringBefore)

(***************************************************************************)
(* Properties of the registry.                                             *)
(***************************************************************************)
\* C6: the store is the map its register and deregister messages describe,
\* taken in the order the registry task deals with them: a key holds the
\* backend of the last register applied for it, and nothing after a
\* deregister or when it was never registered; a lookup returns what the key
\* holds and leaves every key as it was.
C6_RegistryIsAMap ==
  /\ DOMAIN store \subseteq DOMAIN written
  /\ \A k \in DOMAIN written : StoreGet(store, k) = written[k]
  /\ lastGet.kind = "get" => lastGet.result = written[lastGet.key]

\* a lookup has returned a backend while every key is registered
C6_Witness ==
  /\ lastGet.kind = "get"
  /\ lastGet.result # Nil
  /\ DOMAIN store = CallerKeys

\* C7: a lookup of k that began after registerBackendKey(k, b) had returned,
\* with no other register or deregister of k received before the lookup is
\* answered, returns b.
C7_ReturnedRegisterVisible ==
  (lastGet.kind = "get" /\ lastGet.mustSee # Nil)
     => lastGet.result = lastGet.mustSee

\* such a lookup has returned
C7_Witness ==
  /\ lastGet.kind = "get"
  /\ lastGet.mustSee # Nil
  /\ lastGet.result = lastGet.mustSee

(***************************************************************************)
(* Properties of a session.                                                *)
(***************************************************************************)
\* C8: when the backend has sent a well-formed BackendKeyData message, the
\* handler registers that message's (processId, secretKey) against the
\* backend it selected before it enters the tunnel phase: it is not in the
\* tunnel phase, and has not ended, without having done so.
C8_KeyRegisteredBeforeTunnel ==
  /\ hpc = "tunnel" =>
       /\ sessKey = <<BackendKey>>
       /\ LastReceived(BackendKey) = selected
  /\ (KeyDataSent /\ hpc \in {"returned", "crashed"}) => sessKey = <<BackendKey>>

\* C9: what the handler has passed on to the client is, byte for byte and in
\* order, a prefix of what the backend has sent.
C9_ClientReceivesBackendStream == IsPrefix(relayed, BackendSent)

\* C10: while the handler is running and the client has sent bytes that have
\* not been passed on to the backend, the session can still take a step (it
\* is not stuck with the backend waiting for those bytes).
C10_ClientBytesForwarded ==
  (fromClient # <<>> /\ hpc \notin {"idle", "returned", "crashed"})
     => ENABLED NextSession

\* C11: once the handler has registered a key and has returned, the registry
\* has received the deregistration of that key after the registration, and
\* whenever it can receive a lookup its store has no entry for the key.
C11_KeyDeregisteredOnReturn ==
  (hpc = "returned" /\ sessKey # <<>>) =>
     /\ LastReceived(sessKey[1]) = Nil
     /\ regPc = "select" => StoreGet(store, sessKey[1]) = Nil

\* the handler registered the key the backend sent, the tunnel ended, the
\* handler has returned and the registry task is back in its select
C11_Witness ==
  /\ hpc = "returned"
  /\ sessKey = <<BackendKey>>
  /\ regPc = "select"

\* C12: when the handler has returned after dialing a backend, the upstream
\* socket is closed.
C12_UpstreamClosedOnReturn == hpc = "returned" => ~upstreamOpen

(***************************************************************************)
(* Properties of the start-up of a connection.                             *)
(***************************************************************************)
\* an ErrorResponse with severity ERROR, SQLSTATE 08000 and message text
ErrorResponse(text) ==
  LET fields == <<83, 69, 82, 82, 79, 82, 0>> \o <<67, 48, 56, 48, 48, 48, 0>>
                  \o <<77>> \o text \o <<0>>
  IN <<69>> \o EncodeInt32(4 + Len(fields) + 1) \o fields \o <<0>>

\* the handler is sending an ErrorResponse or has returned
Rejecting == {"err1", "err2", "err3", "returned"}

\* what the proxy wrote to the client before it read the packet it is handling
SSLAnswer == IF allowRecursion THEN <<>> ELSE <<78>>

\* the backend the registry maps key k to, Nil when there is none
Registered(k) == IF k \in DOMAIN written THEN written[k] ELSE Nil

C13_AfterCancel ==
  /\ \A i \in 1..Len(calls) : calls[i].op \notin {"reader", "writer"}
  /\ \A k \in CancelKeys :
       (hpc = "returned" /\ lastPacket = CancelRequest(k)) =>
          IF selected = Nil
            THEN calls = <<Call("lookup", Nil)>> /\ toBackend = <<>>
            ELSE \/ /\ calls = <<Call("lookup", Nil), Call("dial", selected),
                                 Call("close", selected)>>
                    /\ toBackend = EncodeInt32(16) \o EncodeInt32(80877102)
                                     \o EncodeInt32(k.processId)
                                     \o EncodeInt32(k.secretKey)
                 \/ /\ calls = <<Call("lookup", Nil), Call("dial", selected)>>
                    /\ toBackend = <<>>

C13_LookupStep ==
  (hpc = "lookupRecv" /\ hpc' # "lookupRecv") => selected' = Registered(cancelKey)

\* C13: for a CancelRequest of 16 bytes carrying key k, the backend the handler
\* goes on with is the one the registry maps k to when it answers the lookup;
\* if there is one, the handler dials it and no other and, when the dial
\* succeeds, writes exactly length 16, code 80877102, pid, secret and closes;
\* if there is none, nothing is dialed.  The oracle is never asked.
C13_CancelProxiedToOwner == []C13_AfterCancel /\ [][C13_LookupStep]_vars

\* a CancelRequest was proxied to the backend registered for its key
C13_Witness ==
  /\ hpc = "returned"
  /\ lastPacket \in {CancelRequest(k) : k \in CallerKeys}
  /\ Len(calls) = 3
  /\ toBackend = lastPacket

\* C14: once a packet has been read as a CancelRequest nothing more is written
\* to the client, the handler sends no ErrorResponse, and when it has
\* returned the connection is closed.
C14_NoReplyToCancel ==
  protocolVersionNumber = CancelRequestCode =>
    /\ toClient = SSLAnswer
    /\ hpc \in {"lookup", "lookupRecv", "cancelDial", "returned"}
    /\ hpc = "returned" => ~connOpen

\* a CancelRequest cut short after its processId has been handled
C14_Witness ==
  /\ protocolVersionNumber = CancelRequestCode
  /\ startupMessageSize = 12
  /\ hpc = "returned"

\* C15: the first SSLRequest is answered with the single byte 'N' and the
\* handler reads the next packet from the same connection; a second
\* SSLRequest gets the ErrorResponse "Unsupported protocol version" and the
\* connection is closed, with no request to the oracle and no dial.
C15_SSLRequestOnce ==
  /\ (lastPacket = SSLRequest /\ fromClient = <<>> /\ hpc = "startup") =>
        /\ toClient = <<78>>
        /\ ~allowRecursion
        /\ connOpen
        /\ calls = <<>>
  /\ (~allowRecursion /\ hpc = "request") => toClient = <<78>>
  /\ (lastPacket = SSLRequest /\ hpc # "startup") =>
        /\ hpc \in Rejecting
        /\ errText = UnsupportedVersionText
        /\ calls = <<>>
        /\ ~upstreamOpen
        /\ hpc = "returned" =>
              /\ toClient = <<78>> \o ErrorResponse(UnsupportedVersionText)
              /\ ~connOpen

\* a second SSLRequest has been rejected
C15_Witness ==
  /\ lastPacket = SSLRequest
  /\ hpc = "returned"
  /\ Len(toClient) > 1

\* the parameters of the startup packet the client sent last
SentParameters == ParseParameters(DropBytes(lastPacket, 8), <<>>).params

\* C16: with name the database parameter if there is one, else the user
\* parameter: without a name the connection fails before any request; if
\* name ends in _replica the handler asks for a reader and sets database to
\* name without its last 8 characters; otherwise it asks for a writer and
\* leaves the parameters as they were.
C16_RoutingFromParameters ==
  (lastPacket \in StartupPackets /\ hpc # "startup") =>
    LET params == SentParameters
        named == Database \in DOMAIN params \/ User \in DOMAIN params
        name == IF Database \in DOMAIN params THEN params[Database]
                ELSE params[User]
        replica == /\ Len(name) >= 8
                   /\ SubSeq(name, Len(name) - 7, Len(name)) = ReplicaSuffix
    IN IF ~named
         THEN /\ hpc \in Rejecting
              /\ errText = MissingParameterText
              /\ calls = <<>>
         ELSE /\ wantReplica = replica
              /\ hpc # "request" => calls # <<>>
              /\ calls # <<>> =>
                    calls[1].op = IF replica THEN "reader" ELSE "writer"
              /\ startupParameters =
                    IF replica
                      THEN [k \in DOMAIN params \cup {Database} |->
                              IF k = Database
                                THEN SubSeq(name, 1, Len(name) - 8)
                                ELSE params[k]]
                      ELSE params

\* user=bob_replica without a database: a reader was asked for and the
\* database parameter is bob
C16_Witness ==
  /\ lastPacket = Packet(ProtocolVersion, Pair(User, Bob \o ReplicaSuffix) \o <<0>>)
  /\ hpc = "dial"
  /\ calls = <<Call("reader", Nil)>>
  /\ startupParameters[Database] = Bob

\* C17: when the oracle's reply is empty the handler sends an ErrorResponse
\* with SQLSTATE 08000 and closes, nothing is dialed and nothing registered;
\* upstream is open only after a reply that names a backend.
C17_EmptyReplyRejected ==
  /\ (calls # <<>> /\ selected = Nil) =>
        /\ hpc \in Rejecting
        /\ errText = NoBackendText
        /\ Len(calls) = 1
        /\ calls[1].op \in {"reader", "writer"}
        /\ ~upstreamOpen
        /\ toBackend = <<>>
        /\ store = <<>> /\ regPc = "select"
        /\ hpc = "returned" =>
              /\ toClient = SSLAnswer \o ErrorResponse(NoBackendText)
              /\ ~connOpen
  /\ upstreamOpen =>
        /\ selected # Nil
        /\ Len(calls) = 2
        /\ calls[1].op \in {"reader", "writer"}
        /\ calls[2] = Call("dial", selected)

\* there are replicas and no master, a writer was asked for and the client
\* was turned away
C17_Witness ==
  /\ hpc = "returned"
  /\ calls = <<Call("writer", Nil)>>
  /\ masterServer = Nil
  /\ replicaServers # <<>>

\* the packets that break the protocol in one of the ways C18 lists
ListedViolations ==
  {EncodeInt32(-1), EncodeInt32(MaxMessageSize + 1)}
    \cup UnterminatedPackets \cup WrongVersionPackets
    \cup {Packet(ProtocolVersion, Pair(Options, App \o ReplicaSuffix) \o <<0>>),
           Packet(ProtocolVersion, <<0>>)}

ErrorTexts ==
  {SizeInvalidStartupText, MalformedPacketText, UnsupportedVersionText,
   MissingParameterText}

\* C18: a packet with a length below 0 or above 8096, without a terminator,
\* with a version that is not 196608 (a second SSLRequest included) or with
\* neither database nor user ends in an ErrorResponse (ERROR, 08000, a text)
\* and a closed connection, with no request to the oracle, no dial and no
\* change of the registry.
C18_ViolationsRejected ==
  ( \/ lastPacket \in ListedViolations /\ hpc # "startup"
    \/ lastPacket = SSLRequest /\ hpc # "startup" ) =>
      /\ hpc \in Rejecting
      /\ calls = <<>>
      /\ ~upstreamOpen
      /\ toBackend = <<>>
      /\ store = <<>> /\ regPc = "select"
      /\ hpc = "returned" =>
            /\ ~connOpen
            /\ \E text \in ErrorTexts :
                 toClient = SSLAnswer \o ErrorResponse(text)

\* a packet without terminator has been rejected
C18_Witness ==
  /\ lastPacket \in UnterminatedPackets
  /\ hpc = "returned"

\* C19: whatever the length field of the packet, the proxy process does not
\* crash.
C19_NoCrash == hpc # "crashed"

(***************************************************************************)
(* Properties of the probes.                                               *)
(***************************************************************************)
\* C20: a probe sends an update only with a status that differs from the one
\* it sent last, and never StatusUnknown; between sends its status is the
\* one it sent last; and once its first iteration is over it has sent one.
C20_EmitOnlyOnChange ==
  \A b \in Probes :
    /\ probe[b].pc = "send" =>
          /\ probe[b].status # lastApplied[b]
          /\ probe[b].status \in SentStatuses
    /\ probe[b].pc # "send" => probe[b].status = lastApplied[b]
    /\ (probe[b].pc = "top" /\ ~probe[b].first) =>
          lastApplied[b] # StatusUnknown

\* a probe that reported Master and then Replica now finds the backend down
\* and is about to report it
C20_Witness ==
  \E b \in Probes :
    /\ probe[b].pc = "send"
    /\ probe[b].status = StatusDown
    /\ lastApplied[b] = StatusReplica
    /\ masterBefore # Nil

\* C21: an iteration of a probe sends at most one update, and an iteration
\* in which rows.Scan failed ends with the probe's status being Broken, the
\* only status it has sent.
C21_OneEventPerIteration ==
  \A b \in Probes :
    /\ Len(probe[b].emitted) <= 1
    /\ (probe[b].scanFailed /\ probe[b].pc = "top") =>
          /\ probe[b].status = StatusBroken
          /\ \A i \in DOMAIN probe[b].emitted :
               probe[b].emitted[i] = StatusBroken

\* the BackendKeyData message stands among the bytes written to the client
KeyDataDelivered ==
  \E i \in 1..Len(toClient) :
    /\ i + Len(BackendKeyData) - 1 <= Len(toClient)
    /\ SubSeq(toClient, i, i + Len(BackendKeyData) - 1) = BackendKeyData

\* C30: once proxyPacketsUntilBackendKeyDataReceived has flushed the
\* BackendKeyData message to the client and while the handler has not left
\* its session, a lookup the registry takes finds the session's key
\* registered for the session's backend.
C30_KeyRegisteredWhenDelivered ==
  (/\ hpc \in {"register", "tunnel"}
   /\ sniff.retval = BackendKey
   /\ KeyDataDelivered
   /\ regPc = "select")
    => StoreGet(store, BackendKey) = selected

(***************************************************************************)
(* Further properties of the start-up of a connection.                     *)
(***************************************************************************)
\* C25: a packet with the CancelRequest code whose length field is not 16
\* causes nothing to be written to any backend.
C25_OnlyWholeCancelProxied ==
  (protocolVersionNumber = CancelRequestCode /\ startupMessageSize # 16)
    => toBackend = <<>>

RECURSIVE SentNames(_)
\* the names of the parameters in data, in the order in which they stand
SentNames(data) ==
  LET nextZero == IndexByte(data, 0)
  IN IF nextZero <= 0 THEN <<>>
     ELSE LET rest == DropBytes(data, nextZero + 1)
              valueZero == IndexByte(rest, 0)
          IN IF valueZero = -1 THEN <<>>
             ELSE <<SubSeq(data, 1, nextZero)>>
                    \o SentNames(DropBytes(rest, valueZero + 1))

\* C26: when the client sent each parameter once and the rewrite added
\* none, the packet replayed to the backend lists the parameters in the
\* order in which the client sent them.
C26_ReplayKeepsOrder ==
  LET names == SentNames(DropBytes(lastPacket, 8))
  IN (/\ lastPacket \in StartupPackets
      /\ hpc = "sniff"
      /\ Len(names) = Cardinality(DOMAIN startupParameters)
      /\ {names[i] : i \in 1..Len(names)} = DOMAIN startupParameters)
       => toBackend = ReplayedPacket(startupParameters, names)

RECURSIVE SentValues(_)
\* the values of the parameters in data, in the order in which they stand
SentValues(data) ==
  LET nextZero == IndexByte(data, 0)
  IN IF nextZero <= 0 THEN <<>>
     ELSE LET rest == DropBytes(data, nextZero + 1)
              valueZero == IndexByte(rest, 0)
          IN IF valueZero = -1 THEN <<>>
             ELSE <<SubSeq(rest, 1, valueZero)>>
                    \o SentValues(DropBytes(rest, valueZero + 1))

\* the value that stands last for name among the parameters the client sent
LastSent(name) ==
  LET names == SentNames(DropBytes(lastPacket, 8))
      values == SentValues(DropBytes(lastPacket, 8))
      last == CHOOSE i \in 1..Len(names) :
                /\ names[i] = name
                /\ \A j \in (i + 1)..Len(names) : names[j] # name
  IN values[last]

C23_InsertionOrderServed ==
  \A i \in 1..Len(readerLog) :
    i <= Len(insertionOrder) => readerLog[i] = insertionOrder[i]

\* C24: a Down, Broken or Master update for a backend that is not in the
\* ring leaves the ring as it was, elements, order and pointer, so that the
\* readers are served as if the update had not come.
C24_StrangerLeavesRing ==
  (/\ lastEvent.status \in {StatusDown, StatusBroken, StatusMaster}
   /\ lastEvent.backend \notin RingSet(ringBefore)
   /\ readerLog = <<>>)
    => replicaServers = ringBefore

\* C28: when every update sent has been applied and exactly one backend's
\* last update is Master, that backend is the one a writer is given.
C28_WriterConverges ==
  \A b \in Backends :
    (/\ lastApplied[b] = StatusMaster
     /\ \A c \in Backends \ {b} : lastApplied[c] # StatusMaster)
      => masterServer = b

\* C29: a backend that stays in the ring for good, while replica requests
\* keep being answered, is the reply of a replica request again and again,
\* whatever updates for other backends are applied in between.
C29_NoReaderStarvation ==
  \A b \in Backends :
    <>[](b \in RingSet(replicaServers))
      => []<>(reply.kind = "reader" /\ reply.backend = b)

(***************************************************************************)
(* Properties of the requests to the oracle.                               *)
(***************************************************************************)
\* a request in flight has no reply yet, an answered one has exactly one,
\* and the oracle is away from its select only for a handler that receives
RepliesCounted ==
  /\ \A h \in Handlers :
       /\ handlers[h].pc \in {"send", "receive"} => handlers[h].replies = 0
       /\ handlers[h].pc = "done" =>
            /\ handlers[h].replies = 1
            /\ handlers[h].backend \in Backends \cup {Nil}
  /\ oraclePc = "reply" =>
       /\ responseChannel \in Handlers
       /\ handlers[responseChannel].pc = "receive"

\* C22: every request sent to the oracle gets exactly one reply, a backend
\* or the empty value; the oracle always comes back to its select; and no
\* handler, probe or oracle stays blocked on a channel forever.
C22_RequestsAnswered ==
  /\ []RepliesCounted
  /\ \A h \in Handlers : []<>(handlers[h].pc \notin {"send", "receive"})
  /\ \A b \in Probes : []<>(probe[b].pc # "send")
  /\ []<>(oraclePc = "select")

\* a handler that asked for a replica is waiting for the reply the oracle
\* is about to send, a backend, while a probe is blocked in its send
C22_Witness ==
  \E h \in Handlers, b \in Probes :
    /\ handlers[h].pc = "receive"
    /\ handlers[h].wantReplica
    /\ oraclePc = "reply"
    /\ reply.backend # Nil
    /\ probe[b].pc = "send"

(***************************************************************************)
(* Properties of the registry entries of live sessions.                    *)
(***************************************************************************)
\* a lookup has just returned the backend of session s, or the store holds
\* it while the registry task is at its select: what a lookup of the key of
\* s, in its tunnel, is to find
FoundFor(s) ==
  /\ regPc = "select" => StoreGet(store, tunnels[s].key) = tunnels[s].backend
  /\ (lastGet.kind = "get" /\ lastGet.key = tunnels[s].key)
       => lastGet.result = tunnels[s].backend

\* C31 as stated: for every session in its tunnel, with key k and backend
\* b, a lookup of k returns b, whatever other sessions register and
\* deregister.
C31_EveryLiveEntryKept ==
  \A s \in Sessions : tunnels[s].pc = "tunnel" => FoundFor(s)

\* C31: for every session in its tunnel whose key no other session has
\* held while it was there, a lookup of its key returns its backend,
\* whatever other sessions register and deregister.
C31_LiveEntryKept ==
  \A s \in Sessions :
    (tunnels[s].pc = "tunnel" /\ ~tunnels[s].shared) => FoundFor(s)

\* a lookup has returned the backend of a session in its tunnel after
\* another session, with another key, has registered and returned
C31_Witness ==
  \E s, t \in Sessions :
    /\ tunnels[s].pc = "tunnel"
    /\ ~tunnels[s].shared
    /\ tunnels[t].pc = "returned"
    /\ lastGet.kind = "get"
    /\ lastGet.key = tunnels[s].key
    /\ lastGet.result = tunnels[s].backend

=============================================================================
